---- MODULE Spec2Model ----
(***************************************************************************)
(* Model of imagecodecs/imagecodecs.py: the codec registry built at import *)
(* time, the lazy attribute resolver (module __getattr__), the stub        *)
(* factory, and the generic imread/imwrite dispatchers.                    *)
(*                                                                         *)
(* Attribute names, codec names and file names are TLA+ strings; the       *)
(* string functions the code relies on (endswith, islower, isupper, upper, *)
(* lower, capitalize, os.path.splitext) are computed character by          *)
(* character.  Backend extension modules are external: whether one         *)
(* imports, which attributes it provides and what its decoders do with     *)
(* some data is the environment, fixed in the initial state.               *)
(***************************************************************************)
EXTENDS Integers, Sequences, FiniteSets, TLC

(***************************************************************************)
(* Python string functions                                                 *)
(***************************************************************************)
Lowers == "abcdefghijklmnopqrstuvwxyz"
Uppers == "ABCDEFGHIJKLMNOPQRSTUVWXYZ"

CharAt(s, i) == SubSeq(s, i, i)

\* index of the one-character string c in s, 0 when absent
IndexOf(c, s) ==
    LET hits == {i \in 1..Len(s) : CharAt(s, i) = c}
    IN  IF hits = {} THEN 0 ELSE CHOOSE i \in hits : \A j \in hits : i <= j

UpperChar(c) ==
    LET i == IndexOf(c, Lowers) IN IF i > 0 THEN CharAt(Uppers, i) ELSE c

LowerChar(c) ==
    LET i == IndexOf(c, Uppers) IN IF i > 0 THEN CharAt(Lowers, i) ELSE c

RECURSIVE Upper(_)
\* str.upper()
Upper(s) ==
    IF Len(s) = 0 THEN ""
    ELSE UpperChar(CharAt(s, 1)) \o Upper(SubSeq(s, 2, Len(s)))

RECURSIVE Lower(_)
\* str.lower()
Lower(s) ==
    IF Len(s) = 0 THEN ""
    ELSE LowerChar(CharAt(s, 1)) \o Lower(SubSeq(s, 2, Len(s)))

\* str.capitalize(): first character upper-cased, the rest lower-cased
Capitalize(s) ==
    IF Len(s) = 0 THEN ""
    ELSE UpperChar(CharAt(s, 1)) \o Lower(SubSeq(s, 2, Len(s)))

\* str.endswith(suffix)
EndsWith(s, suffix) ==
    /\ Len(s) >= Len(suffix)
    /\ SubSeq(s, Len(s) - Len(suffix) + 1, Len(s)) = suffix

\* str.islower(): no upper-case character and at least one lower-case one
IsLower(s) ==
    /\ \A i \in 1..Len(s) : IndexOf(CharAt(s, i), Uppers) = 0
    /\ \E i \in 1..Len(s) : IndexOf(CharAt(s, i), Lowers) > 0

\* str.isupper(): no lower-case character and at least one upper-case one
IsUpper(s) ==
    /\ \A i \in 1..Len(s) : IndexOf(CharAt(s, i), Lowers) = 0
    /\ \E i \in 1..Len(s) : IndexOf(CharAt(s, i), Uppers) > 0

\* s[:-n]
DropLast(s, n) == SubSeq(s, 1, Len(s) - n)

\* repr() of a str without quotes or backslashes in it
Repr(s) == "'" \o s \o "'"

SeqToSet(q) == {q[i] : i \in 1..Len(q)}

(***************************************************************************)
(* The declarative table _API, _COMPATIBILITY                              *)
(***************************************************************************)
\* Python's None, as the key and value of the module-less core
None == "<None>"

\* an entry of an _API list: a plain attribute name, or a tuple of codecs
Attr(s) == [attr |-> s]
Tuple(t) == [tuple |-> t]
IsTuple(e) == "tuple" \in DOMAIN e

\* _API as written in the source, in dict order
DeclaredAPI == <<
    [module |-> None, attributes |-> <<Attr("version"), Attr("imread"),
        Attr("imwrite"), Attr("imagefileext"), Attr("DelayedImportError"),
        Tuple(<<"none", "numpy", "jpeg">>)>>],
    [module |-> "imcd", attributes |-> <<Attr("imcd_version"),
        Attr("numpy_abi_version"), Attr("cython_version"),
        Tuple(<<"bitorder", "byteshuffle", "delta", "float24", "floatpred",
        "lzw", "packbits", "packints", "xor">>)>>],
    [module |-> "aec", attributes |-> <<>>],
    [module |-> "apng", attributes |-> <<>>],
    [module |-> "avif", attributes |-> <<>>],
    [module |-> "bitshuffle", attributes |-> <<>>],
    [module |-> "blosc", attributes |-> <<>>],
    [module |-> "blosc2", attributes |-> <<>>],
    [module |-> "brotli", attributes |-> <<>>],
    [module |-> "brunsli", attributes |-> <<>>],
    [module |-> "bz2", attributes |-> <<>>],
    [module |-> "cms", attributes |-> <<Attr("cms_transform"),
        Attr("cms_profile")>>],
    [module |-> "deflate", attributes |-> <<Attr("deflate_crc32"),
        Attr("deflate_adler32"), Tuple(<<"deflate", "gzip">>)>>],
    [module |-> "gif", attributes |-> <<>>],
    [module |-> "heif", attributes |-> <<>>],
    [module |-> "jetraw", attributes |-> <<Attr("jetraw_init")>>],
    [module |-> "jpeg2k", attributes |-> <<>>],
    [module |-> "jpeg8", attributes |-> <<>>],
    [module |-> "jpeg12", attributes |-> <<>>],
    [module |-> "jpegls", attributes |-> <<>>],
    [module |-> "jpegsof3", attributes |-> <<>>],
    [module |-> "jpegxl", attributes |-> <<>>],
    [module |-> "jpegxr", attributes |-> <<>>],
    [module |-> "lerc", attributes |-> <<>>],
    [module |-> "ljpeg", attributes |-> <<>>],
    [module |-> "lz4", attributes |-> <<>>],
    [module |-> "lz4f", attributes |-> <<>>],
    [module |-> "lzf", attributes |-> <<>>],
    [module |-> "lzma", attributes |-> <<>>],
    [module |-> "mozjpeg", attributes |-> <<>>],
    [module |-> "pglz", attributes |-> <<>>],
    [module |-> "qoi", attributes |-> <<>>],
    [module |-> "png", attributes |-> <<>>],
    [module |-> "rgbe", attributes |-> <<>>],
    [module |-> "rcomp", attributes |-> <<>>],
    [module |-> "snappy", attributes |-> <<>>],
    [module |-> "spng", attributes |-> <<>>],
    [module |-> "tiff", attributes |-> <<>>],
    [module |-> "webp", attributes |-> <<>>],
    [module |-> "zfp", attributes |-> <<>>],
    [module |-> "zlib", attributes |-> <<Attr("zlib_crc32"),
        Attr("zlib_adler32")>>],
    [module |-> "zlibng", attributes |-> <<Attr("zlibng_crc32"),
        Attr("zlibng_adler32")>>],
    [module |-> "zopfli", attributes |-> <<>>],
    [module |-> "zstd", attributes |-> <<>>]
>>

Modules == {DeclaredAPI[i].module : i \in 1..Len(DeclaredAPI)}

\* _COMPATIBILITY: deprecated name -> existing attribute
COMPATIBILITY ==
    [a \in {"JPEG", "jpeg_check", "jpeg_version", "zopfli_check",
            "zopfli_decode", "j2k_encode", "j2k_decode", "jxr_encode",
            "jxr_decode"} |->
        CASE a = "JPEG" -> "JPEG8"
          [] a = "jpeg_check" -> "jpeg8_check"
          [] a = "jpeg_version" -> "jpeg8_version"
          [] a = "zopfli_check" -> "zlib_check"
          [] a = "zopfli_decode" -> "zlib_decode"
          [] a = "j2k_encode" -> "jpeg2k_encode"
          [] a = "j2k_decode" -> "jpeg2k_decode"
          [] a = "jxr_encode" -> "jpegxr_encode"
          [] a = "jxr_decode" -> "jpegxr_decode"]

\* dict.get(key, default)
DictGet(d, key, default) == IF key \in DOMAIN d THEN d[key] ELSE default

\* dict.update(): the entries of e replace or extend those of d
DictUpdate(d, e) == e @@ d

(***************************************************************************)
(* Startup registration: _add_codec, _register_codecs                      *)
(***************************************************************************)
\* the standard attributes _add_codec derives from a codec name
DerivedAttributes(codec) ==
    << codec \o "_encode", codec \o "_decode", codec \o "_check",
       codec \o "_version", Capitalize(codec) \o "Error", Upper(codec) >>

\* faulty variant: only the derived names are entered into _ATTRIBUTES
AddCodecDerivedOnly(reg, module, codec) ==
    LET derived == DerivedAttributes(codec)
        list == reg.api[module] \o [i \in 1..Len(derived) |-> Attr(derived[i])]
    IN  [api |-> [reg.api EXCEPT ![module] = list],
         attributes |-> DictUpdate(reg.attributes,
                                   [n \in SeqToSet(derived) |-> module]),
         codecs |-> DictUpdate(reg.codecs, [c \in {codec} |-> module])]

\* _add_codec(module, codec): reg is [api, attributes, codecs]
AddCodec(reg, module, codec) ==
    LET derived == DerivedAttributes(codec)
        list == reg.api[module] \o [i \in 1..Len(derived) |-> Attr(derived[i])]
        names == {list[i].attr : i \in {j \in 1..Len(list) : ~IsTuple(list[j])}}
    IN  [api |-> [reg.api EXCEPT ![module] = list],
         attributes |-> DictUpdate(reg.attributes, [n \in names |-> module]),
         codecs |-> DictUpdate(reg.codecs, [c \in {codec} |-> module])]

RECURSIVE AddCodecs(_, _, _)
\* for codec in attr: _add_codec(module, codec)
AddCodecs(reg, module, codecs) ==
    IF codecs = <<>> THEN reg
    ELSE AddCodecs(AddCodec(reg, module, Head(codecs)), module, Tail(codecs))

\* list.remove(x) for the entry at position i
RemoveAt(q, i) == SubSeq(q, 1, i - 1) \o SubSeq(q, i + 1, Len(q))

\* faulty variant: a group is not expanded, every module registers its own
\* name
RegisterModuleOwnName(reg, module) == AddCodec(reg, module, module)

\* one iteration of the outer loop of _register_codecs: the first tuple of
\* the module's list is removed and expanded (break); a list without a
\* tuple registers the module's own name as its codec (for ... else)
RegisterModule(reg, module) ==
    LET attributes == reg.api[module]
        tuples == {i \in 1..Len(attributes) : IsTuple(attributes[i])}
    IN  IF tuples # {}
        THEN LET i == CHOOSE k \in tuples : \A j \in tuples : k <= j
             IN  AddCodecs([reg EXCEPT !.api[module] = RemoveAt(attributes, i)],
                           module, attributes[i].tuple)
        ELSE AddCodec(reg, module, module)

RECURSIVE RegisterFrom(_, _)
\* for module, attributes in _API.items(): from the i-th module on
RegisterFrom(reg, i) ==
    IF i > Len(DeclaredAPI) THEN reg
    ELSE LET next == RegisterModule(reg, DeclaredAPI[i].module)
         IN  \* the loop body does not add or remove a key of _API
             IF DOMAIN next.api = DOMAIN reg.api
             THEN RegisterFrom(next, i + 1)
             ELSE next

\* _register_codecs(), run once when the package is imported
RegisterCodecs ==
    RegisterFrom(
        [api |-> [m \in Modules |->
                    LET i == CHOOSE k \in 1..Len(DeclaredAPI) :
                                 DeclaredAPI[k].module = m
                    IN  DeclaredAPI[i].attributes],
         attributes |-> [n \in {} |-> None],
         codecs |-> [n \in {} |-> None]],
        1)

(***************************************************************************)
(* Enumeration: __dir__                                                    *)
(***************************************************************************)
\* the characters of names and version strings in the order of their code
\* points
Alphabet ==
    " -./0123456789ABCDEFGHIJKLMNOPQRSTUVWXYZ_abcdefghijklmnopqrstuvwxyz"

CodePoint == [c \in {CharAt(Alphabet, i) : i \in 1..Len(Alphabet)} |->
                 IndexOf(c, Alphabet)]

RECURSIVE StrLess(_, _)
\* a < b for two str
StrLess(a, b) ==
    IF Len(b) = 0 THEN FALSE
    ELSE IF Len(a) = 0 THEN TRUE
    ELSE IF CharAt(a, 1) # CharAt(b, 1)
    THEN CodePoint[CharAt(a, 1)] < CodePoint[CharAt(b, 1)]
    ELSE StrLess(Tail(a), Tail(b))

\* sorted(q) for a list of str: the k-th name is the one with fewer than k
\* names before it and at least k names not after it; equal names stay,
\* next to each other
Sorted(q) ==
    LET names == SeqToSet(q)
        before == [x \in names |->
                     Cardinality({i \in 1..Len(q) : StrLess(q[i], x)})] @@ <<>>
        same == [x \in names |->
                     Cardinality({i \in 1..Len(q) : q[i] = x})] @@ <<>>
    IN  [k \in 1..Len(q) |->
            CHOOSE x \in names : before[x] < k /\ k <= before[x] + same[x]]

RECURSIVE Keys(_, _)
\* the attribute names of the lists of api from the i-th module on, in
\* the order _add_codec enters them into _ATTRIBUTES
Keys(api, i) ==
    IF i > Len(DeclaredAPI) THEN <<>>
    ELSE LET list == api[DeclaredAPI[i].module]
         IN  [j \in 1..Len(list) |-> list[j].attr] \o Keys(api, i + 1)

\* list(_ATTRIBUTES), list(_COMPATIBILITY)
AttributeList == Keys(RegisterCodecs.api, 1)
CompatibilityList ==
    <<"JPEG", "jpeg_check", "jpeg_version", "zopfli_check", "zopfli_decode",
      "j2k_encode", "j2k_decode", "jxr_encode", "jxr_decode">>

\* faulty variant: the primary names alone
DirPrimary(attributes, compatibility) == Sorted(attributes)

\* __dir__(): sorted(list(_ATTRIBUTES) + list(_COMPATIBILITY))
Dir(attributes, compatibility) == Sorted(attributes \o compatibility)

\* __dir__() of the package as it is after startup
DirList == Dir(AttributeList, CompatibilityList)

(***************************************************************************)
(* Program state                                                           *)
(***************************************************************************)
VARIABLES
    API,          \* _API: module -> list of attribute entries
    ATTRIBUTES,   \* _ATTRIBUTES: attribute name -> module
    CODECS,       \* _CODECS: codec name -> module
    ns,           \* the package namespace: attached name -> object
    binds,        \* module -> number of import attempts so far
    env,          \* the installation: what the backends do (never changes)
    versions,     \* _versions_, the list version() keeps between calls
    pc,           \* thread -> where it is in __getattr__, and its locals
    ret           \* what the last operation returned or raised

vars == <<API, ATTRIBUTES, CODECS, ns, binds, env, versions, pc, ret>>

(***************************************************************************)
(* Objects, exceptions                                                     *)
(***************************************************************************)
\* an object found in the namespace.  kind "global": defined by the package
\* source itself; "impl": an attribute of an imported backend module;
\* "stub": made by _stub, told apart from other stubs by id
Object(kind, name, module, shape, bound, id) ==
    [kind |-> kind, name |-> name, module |-> module, shape |-> shape,
     bound |-> bound, id |-> id]

Global(name) == Object("global", name, None, "", TRUE, 0)
Impl(module, name) == Object("impl", name, module, "", TRUE, 0)
PyNone == Object("none", "", None, "", FALSE, 0)
\* True and False; a str
PyBool(b) == Object("bool", IF b THEN "True" ELSE "False", None, "", b, 0)
PyStr(s) == Object("str", s, None, "", TRUE, 0)

Exception(type, msg) == [type |-> type, msg |-> msg]
NoException == Exception("", "")

\* the result of a call: the returned object, or the exception it raised
Return(value) == [raised |-> NoException, value |-> value]
Raise(type, msg) == [raised |-> Exception(type, msg), value |-> PyNone]

\* DelayedImportError(name)
DelayedImportError(name) ==
    Exception("DelayedImportError",
              "could not import name " \o Repr(name) \o " from 'imagecodecs'")

\* the public names the package source defines itself
Globals ==
    {"version", "imread", "imwrite", "imagefileext", "DelayedImportError",
     "NONE", "NoneError", "none_version", "none_check", "none_decode",
     "none_encode", "NUMPY", "NumpyError", "numpy_version", "numpy_check",
     "numpy_decode", "numpy_encode", "JpegError", "jpeg_decode",
     "jpeg_encode"}

(***************************************************************************)
(* Stub factory: _stub                                                     *)
(***************************************************************************)
\* faulty variant: the letter case is tested before the suffixes
StubShapeCaseFirst(name) ==
    CASE IsLower(name) -> "stub_function"
      [] EndsWith(name, "_version") -> "stub_version"
      [] EndsWith(name, "_check") -> "stub_check"
      [] EndsWith(name, "_decode") -> "stub_decode"
      [] EndsWith(name, "_encode") -> "stub_encode"
      [] EndsWith(name, "Error") -> "StubError"
      [] IsUpper(name) -> "STUB"
      [] OTHER -> "Stub"

\* which of the stubs _stub(name, module) builds, decided by the name alone
StubShape(name) ==
    CASE EndsWith(name, "_version") -> "stub_version"
      [] EndsWith(name, "_check") -> "stub_check"
      [] EndsWith(name, "_decode") -> "stub_decode"
      [] EndsWith(name, "_encode") -> "stub_encode"
      [] IsLower(name) -> "stub_function"
      [] EndsWith(name, "Error") -> "StubError"
      [] IsUpper(name) -> "STUB"
      [] OTHER -> "Stub"

\* _stub(name, module): module is None when the import failed.  id tells
\* the objects of different calls apart
MakeStub(name, module, id) ==
    Object("stub", name, module, StubShape(name), module # None, id)

\* stub_version(): takes no argument
StubVersion(stub, nargs) ==
    IF nargs # 0 THEN Raise("TypeError", "stub_version() arguments")
    ELSE IF stub.module = None
    THEN Return(PyStr(DropLast(stub.name, 8) \o " n/a"))
    ELSE Return(PyStr(DropLast(stub.name, 8) \o " unknow"))

\* stub_check(arg): takes one argument
StubCheck(stub, nargs) ==
    IF nargs # 1 THEN Raise("TypeError", "stub_check() arguments")
    ELSE Return(PyBool(FALSE))

\* stub_decode(*args, **kwargs)
StubDecode(stub, nargs) ==
    [raised |-> DelayedImportError(stub.name), value |-> PyNone]

\* faulty variant: an encode stub that returns None instead of raising
StubEncodeSilent(stub, nargs) == Return(PyNone)

\* stub_encode(*args, **kwargs)
StubEncode(stub, nargs) ==
    [raised |-> DelayedImportError(stub.name), value |-> PyNone]

\* stub_function(*args, **kwargs)
StubFunction(stub, nargs) ==
    [raised |-> DelayedImportError(stub.name), value |-> PyNone]

\* StubError(*args, **kwargs): __init__ raises
StubErrorInit(stub, nargs) ==
    [raised |-> DelayedImportError(stub.name), value |-> PyNone]

\* STUB(), Stub(): classes without __init__, instantiated by type.__call__
StubTypeCall(stub, nargs) ==
    IF nargs # 0 THEN Raise("TypeError", "takes no arguments")
    ELSE Return(Object("instance", stub.name, stub.module, stub.shape,
                       stub.bound, stub.id))

\* calling a stub with nargs positional arguments
CallStub(stub, nargs) ==
    CASE stub.shape = "stub_version" -> StubVersion(stub, nargs)
      [] stub.shape = "stub_check" -> StubCheck(stub, nargs)
      [] stub.shape = "stub_decode" -> StubDecode(stub, nargs)
      [] stub.shape = "stub_encode" -> StubEncode(stub, nargs)
      [] stub.shape = "stub_function" -> StubFunction(stub, nargs)
      [] stub.shape = "StubError" -> StubErrorInit(stub, nargs)
      [] OTHER -> StubTypeCall(stub, nargs)

\* faulty variant: StubType without __bool__, every class is true
StubBoolDefault(stub) == Return(PyBool(TRUE))

\* faulty variant: __bool__ is defined whatever module is
StubBoolAlwaysDefined(stub) ==
    IF stub.shape \in {"STUB", "Stub"}
    THEN Return(PyBool(FALSE))
    ELSE Return(PyBool(TRUE))

\* bool(stub): StubType defines __bool__ only when module is None; any
\* other object (a function, a class) is true.  Neither raises
StubBool(stub) ==
    IF stub.shape \in {"STUB", "Stub"} /\ ~stub.bound
    THEN Return(PyBool(FALSE))
    ELSE Return(PyBool(TRUE))

\* stub.arg for a name arg that the stub object does not define:
\* StubType.__getattr__ for the classes STUB and Stub, the default
\* AttributeError for functions and for StubError
StubGetattr(stub, arg) ==
    IF stub.shape \in {"STUB", "Stub"}
    THEN [raised |-> DelayedImportError(stub.name), value |-> PyNone]
    ELSE Raise("AttributeError", "object has no attribute " \o Repr(arg))

(***************************************************************************)
(* Lazy resolver: module __getattr__                                       *)
(***************************************************************************)
\* importlib.import_module('._' + module_, 'imagecodecs'): "ok", or the
\* exception the import raises in this installation
ImportModule(e, module_) ==
    IF module_ \in e.missing THEN "ImportError"
    ELSE IF module_ \in e.abi THEN "AttributeError"
    ELSE "ok"

\* faulty variant: the import is not guarded, every failure propagates
BindRaisesNoTry(e, imported) == imported # "ok"

\* the try statement around the import: ImportError is caught; in the
\* AttributeError handler "from . import _shared" raises when _shared
\* cannot be imported either, and that ImportError leaves __getattr__
BindRaises(e, imported) == imported = "AttributeError" /\ ~e.shared

\* getattr(module, n, None) is not None, for an imported module
Provides(e, module_, n) == n \notin e.lacks

\* faulty variant: the loop attaches the compatibility aliases it meets
AttachedNamesWithAliases(api, module_) ==
    {api[module_][i].attr : i \in {j \in 1..Len(api[module_]) :
        ~IsTuple(api[module_][j])}}

\* faulty variant: the loop misses the first entry of the module's list
AttachedNamesButFirst(api, module_) ==
    {api[module_][i].attr : i \in {j \in 2..Len(api[module_]) :
        /\ ~IsTuple(api[module_][j])
        /\ api[module_][j].attr \notin DOMAIN COMPATIBILITY}}

\* the names the loop of __getattr__ attaches for module_
AttachedNames(api, module_) ==
    {api[module_][i].attr : i \in {j \in 1..Len(api[module_]) :
        /\ ~IsTuple(api[module_][j])
        /\ api[module_][j].attr \notin DOMAIN COMPATIBILITY}}

\* faulty variant: an unknown name is answered like an unavailable one
UnknownAttributeDelayed(s, name) ==
    [ns |-> s.ns, binds |-> s.binds,
     res |-> [raised |-> DelayedImportError(name), value |-> PyNone]]

\* raise AttributeError for a name that is not in _ATTRIBUTES
UnknownAttribute(s, name) ==
    [ns |-> s.ns, binds |-> s.binds,
     res |-> Raise("AttributeError",
                   "module 'imagecodecs' has no attribute " \o Repr(name))]

\* faulty variant: the namespace is rebuilt from what is attached now
SetAttrsAnew(namespace, attached) == attached

\* setattr(imagecodecs, n, attr) for every n of attached
SetAttrs(namespace, attached) == DictUpdate(namespace, attached)

\* faulty variant: nothing is attached under the alias
SetAliasNever(namespace, name, name_) == namespace

\* if name != name_: setattr(imagecodecs, name_, attr)
SetAlias(namespace, name, name_) ==
    IF name # name_
    THEN SetAttrs(namespace, [a \in {name_} |-> namespace[name]])
    ELSE namespace

\* __getattr__(name) run on the namespace s.ns with the import counters
\* s.binds: the namespace and counters after it, and what it returned
GetAttr(s, e, name_) ==
    LET name == DictGet(COMPATIBILITY, name_, name_)
    IN  IF name \notin DOMAIN ATTRIBUTES
        THEN UnknownAttribute(s, name)
        ELSE
        LET module_ == ATTRIBUTES[name]
        IN  IF module_ = None
            THEN [ns |-> s.ns, binds |-> s.binds, res |-> Return(PyNone)]
            ELSE
            LET imported == ImportModule(e, module_)
                binds1 == [s.binds EXCEPT ![module_] = @ + 1]
                module == IF imported = "ok" THEN module_ ELSE None
                attached ==
                    [n \in AttachedNames(API, module_) |->
                        IF module # None /\ Provides(e, module_, n)
                        THEN Impl(module_, n)
                        ELSE MakeStub(n, module, binds1[module_])]
                ns1 == SetAttrs(s.ns, attached)
            IN  IF BindRaises(e, imported)
                THEN \* from . import _shared raises inside the handler
                     [ns |-> s.ns, binds |-> binds1,
                      res |-> Raise("ImportError", "_shared")]
                ELSE IF name \notin DOMAIN ns1
                THEN \* getattr(imagecodecs, name) re-enters __getattr__
                     [ns |-> ns1, binds |-> binds1,
                      res |-> Raise("RecursionError", name)]
                ELSE [ns |-> SetAlias(ns1, name, name_),
                      binds |-> binds1,
                      res |-> Return(ns1[name])]

\* faulty variant: the resolver is entered for attached names as well
NsGetattrUncached(s, e, name) == GetAttr(s, e, name)

\* getattr(imagecodecs, name): Python calls __getattr__ only for a name
\* that is not in the namespace
NsGetattr(s, e, name) ==
    IF name \in DOMAIN s.ns
    THEN [ns |-> s.ns, binds |-> s.binds, res |-> Return(s.ns[name])]
    ELSE GetAttr(s, e, name)

(***************************************************************************)
(* File extension table: _imcodecs                                         *)
(***************************************************************************)
Max(S) == CHOOSE x \in S : \A y \in S : y <= x

\* the literal codec -> extensions table of _imcodecs, in source order
ImCodecsTable == <<
    [codec |-> "apng", exts |-> <<"apng">>],
    [codec |-> "avif", exts |-> <<"avif", "avifs">>],
    [codec |-> "brunsli", exts |-> <<"brn">>],
    [codec |-> "gif", exts |-> <<"gif">>],
    [codec |-> "heif", exts |-> <<"heif", "heic", "heifs", "heics", "hif">>],
    [codec |-> "jpeg",
     exts |-> <<"jpg", "jpeg", "jpe", "jfif", "jif", "ljpeg">>],
    [codec |-> "jpeg2k",
     exts |-> <<"j2k", "jp2", "j2c", "jpc", "jpx", "jpf">>],
    [codec |-> "jpegls", exts |-> <<"jls">>],
    [codec |-> "jpegxl", exts |-> <<"jxl">>],
    [codec |-> "jpegxr", exts |-> <<"jxr", "hdp", "wdp">>],
    [codec |-> "lerc", exts |-> <<"lerc1", "lerc2">>],
    [codec |-> "numpy", exts |-> <<"npy", "npz">>],
    [codec |-> "png", exts |-> <<"png">>],
    [codec |-> "qoi", exts |-> <<"qoi">>],
    [codec |-> "rgbe", exts |-> <<"hdr", "rgbe", "pic">>],
    [codec |-> "tiff",
     exts |-> <<"tif", "tiff", "ptif", "ptiff", "tf8", "tf2", "btf">>],
    [codec |-> "webp", exts |-> <<"webp">>],
    [codec |-> "zfp", exts |-> <<"zfp">>] >>

\* _imcodecs(): extension -> codec, as _codecs_.update fills it in table
\* order (a later entry would replace an earlier one)
ImCodecs ==
    LET n == Len(ImCodecsTable)
        exts == UNION {SeqToSet(ImCodecsTable[i].exts) : i \in 1..n}
        last(x) == Max({i \in 1..n : x \in SeqToSet(ImCodecsTable[i].exts)})
    IN  [x \in exts |-> ImCodecsTable[last(x)].codec] @@ <<>>

\* index of the last occurrence of the one-character string c in s, 0 when
\* absent: s.rfind(c) + 1
LastIndexOf(c, s) ==
    LET hits == {i \in 1..Len(s) : CharAt(s, i) = c}
    IN  IF hits = {} THEN 0 ELSE Max(hits)

\* os.path.splitext(p)[-1]: from the last dot of the last path component,
\* unless only dots precede it in that component
SplitExt(p) ==
    LET sep == LastIndexOf("/", p)
        dot == LastIndexOf(".", p)
    IN  IF dot > sep /\ \E i \in (sep + 1)..(dot - 1) : CharAt(p, i) # "."
        THEN SubSeq(p, dot, Len(p))
        ELSE ""

(***************************************************************************)
(* Objects of generic read                                                 *)
(***************************************************************************)
\* an int
PyInt(n) == [kind |-> "int", value |-> n]

\* a callable given as a codec: its __name__ (named is FALSE for a callable
\* without one, such as functools.partial) and what calling it does
Callable(name, named, does) ==
    [kind |-> "callable", name |-> name, named |-> named, does |-> does]

\* a list or a tuple
PyList(items) == [kind |-> "list", items |-> items]
PyTuple(items) == [kind |-> "tuple", items |-> items]

\* a numpy array of the given dtype, made by the function named by
Array(dtype, by) == [kind |-> "ndarray", dtype |-> dtype, by |-> by]

\* the bytes or the memory map the decoders are given: what it holds and,
\* for a memory map, its read position
Data(kind, content, pos) == [kind |-> kind, content |-> content, pos |-> pos]

\* type(v).__name__ as it shows in an AttributeError
TypeName(v) ==
    CASE v.kind = "mmap" -> "mmap.mmap"
      [] v.kind = "none" -> "NoneType"
      [] v.kind = "callable" -> "functools.partial"
      [] OTHER -> v.kind

\* repr(codec) of a candidate that is not callable
ReprOf(c) == IF c.kind = "str" THEN Repr(c.name) ELSE ToString(c.value)

\* sub in s
Contains(s, sub) ==
    \E i \in 1..(Len(s) - Len(sub) + 1) : SubSeq(s, i, i + Len(sub) - 1) = sub

RECURSIVE Join(_, _)
\* sep.join(lines)
Join(sep, lines) ==
    IF Len(lines) = 0 THEN ""
    ELSE IF Len(lines) = 1 THEN lines[1]
    ELSE lines[1] \o sep \o Join(sep, Tail(lines))

(***************************************************************************)
(* Decoders                                                                *)
(***************************************************************************)
\* what a backend's decoder does with each kind of content the model
\* reads: the array it returns or the error it raises.  Every other pair
\* raises the codec's error
BackendDecode(name, content) ==
    LET codec == DropLast(name, 7)
    IN  CASE content = "png" /\ name = "png_decode" ->
                Return(Array("uint8", name))
          [] content = "jpeg8" /\ name = "jpeg8_decode" ->
                Return(Array("uint8", name))
          [] content = "sof3" /\ name \in {"jpeg8_decode", "jpeg12_decode"} ->
                Raise(Capitalize(codec) \o "Error", "Unsupported SOF type 0xc3")
          [] content = "sof3" /\ name = "jpegsof3_decode" ->
                Return(Array("uint16", name))
          [] content = "jpeg12" /\ name = "jpeg8_decode" ->
                Raise("Jpeg8Error", "Unsupported JPEG data precision 12")
          [] content = "jpeg12" /\ name = "jpeg12_decode" ->
                Return(Array("uint16", name))
          [] content = "ljpeg" /\ name \in {"jpeg8_decode", "jpeg12_decode"} ->
                Raise(Capitalize(codec) \o "Error", "Unsupported SOF type 0xc3")
          [] content = "ljpeg" /\ name = "ljpeg_decode" ->
                Return(Array("uint16", name))
          [] content = "object" /\ name = "tiff_decode" ->
                Return(Array("object", name))
          [] OTHER ->
                Raise(Capitalize(codec) \o "Error", "not a " \o codec \o " file")

\* numpy_decode(data): numpy.load, a ValueError of which is raised anew
NumpyDecode(data) ==
    IF data.content = "object"
    THEN Return(Array("object", "numpy_decode"))
    ELSE Raise("ValueError", "not a numpy array")

\* none_decode(data): returns its argument
NoneDecode(data) == Return(data)

\* calling a callable given as a codec
CallCallable(f, data) ==
    CASE f.does = "array" -> Return(Array("uint8", f.name))
      [] f.does = "object" -> Return(Array("object", f.name))
      [] f.does = "nodtype" -> Return(PyList(<<>>))
      [] f.does = "unavailable" ->
            [raised |-> DelayedImportError(f.name), value |-> PyNone]
      [] OTHER -> Raise("RuntimeError", "cannot decode")

\* calling a backend's decoder or the stub in its place
CallBackend(func, data) ==
    IF func.kind = "stub" THEN CallStub(func, 1)
    ELSE BackendDecode(func.name, data.content)

\* the call that follows the attribute lookup r of a decoder
CallLooked(r, name, data) ==
    [ns |-> r.ns, binds |-> r.binds, calls |-> <<name>>,
     res |-> IF r.res.raised # NoException THEN r.res
             ELSE CallBackend(r.res.value, data),
     outs |-> <<IF r.res.raised # NoException THEN r.res
                ELSE CallBackend(r.res.value, data)>>]

\* imagecodecs.<name>(data, ...) inside jpeg_decode, after the attempt
\* prior: the attribute lookup, then the call.  calls lists the decoders
\* asked for so far, outs what each of them returned or raised
CallAttr(prior, e, name, data) ==
    [CallLooked(NsGetattr([ns |-> prior.ns, binds |-> prior.binds], e, name),
                name, data)
        EXCEPT !.calls = prior.calls \o @, !.outs = prior.outs \o @]

\* except Exception: return imagecodecs.ljpeg_decode(...), a being the
\* attempt of jpegsof3_decode
OrLjpeg(a, e, data) ==
    IF a.res.raised = NoException THEN a
    ELSE CallAttr(a, e, "ljpeg_decode", data)

\* try: return jpegsof3_decode(...)  except Exception: return
\* ljpeg_decode(...)
Sof3ThenLjpeg(prior, e, data) ==
    OrLjpeg(CallAttr(prior, e, "jpegsof3_decode", data), e, data)

\* faulty variant: the 12-bit decoder is tried after any failure of the
\* 8-bit one
JpegAfter8Always12(a, e, data) ==
    IF a.res.raised = NoException THEN a
    ELSE CallAttr(a, e, "jpeg12_decode", data)

\* the first branch of jpeg_decode after the attempt a of jpeg8_decode
JpegAfter8(a, e, data) ==
    IF a.res.raised = NoException THEN a
    ELSE IF Contains(a.res.raised.msg, "Unsupported JPEG data precision")
    THEN CallAttr(a, e, "jpeg12_decode", data)
    ELSE IF Contains(a.res.raised.msg, "SOF type")
    THEN Sof3ThenLjpeg(a, e, data)
    ELSE a

\* the except clause of the second branch of jpeg_decode, a being what
\* its try block did
JpegAfterGiven(a, e, data) ==
    IF a.res.raised = NoException THEN a
    ELSE IF Contains(a.res.raised.msg, "SOF type")
    THEN Sof3ThenLjpeg(a, e, data)
    ELSE a

\* jpeg_decode(data, bitspersample): header is None
JpegDecode(s, e, data, bitspersample) ==
    IF bitspersample.kind = "none"
    THEN JpegAfter8(
            CallAttr([ns |-> s.ns, binds |-> s.binds, calls |-> <<>>,
                      outs |-> <<>>], e, "jpeg8_decode", data), e, data)
    ELSE JpegAfterGiven(
            IF bitspersample = PyInt(8) \/ bitspersample = PyInt(12)
            THEN CallAttr([ns |-> s.ns, binds |-> s.binds, calls |-> <<>>,
                           outs |-> <<>>],
                          e, IF bitspersample = PyInt(8)
                             THEN "jpeg8_decode" ELSE "jpeg12_decode", data)
            ELSE Sof3ThenLjpeg([ns |-> s.ns, binds |-> s.binds,
                                calls |-> <<>>, outs |-> <<>>], e, data),
            e, data)

\* func(data): the namespace after the call (jpeg_decode looks decoders
\* up) and what the call returned or raised
CallDecode(s, e, func, data) ==
    CASE func.kind = "callable" ->
            [ns |-> s.ns, binds |-> s.binds, res |-> CallCallable(func, data)]
      [] func.kind = "global" /\ func.name = "jpeg_decode" ->
            JpegDecode(s, e, data, PyNone)
      [] func.kind = "global" /\ func.name = "numpy_decode" ->
            [ns |-> s.ns, binds |-> s.binds, res |-> NumpyDecode(data)]
      [] func.kind = "global" /\ func.name = "none_decode" ->
            [ns |-> s.ns, binds |-> s.binds, res |-> NoneDecode(data)]
      [] OTHER ->
            [ns |-> s.ns, binds |-> s.binds, res |-> CallBackend(func, data)]

(***************************************************************************)
(* Generic read: imread                                                    *)
(***************************************************************************)
\* the codecs tried when the extension decides nothing, in this order
Fallback ==
    <<"tiff", "apng", "png", "gif", "webp", "jpeg8", "jpeg12", "jpegsof3",
      "jpeg2k", "jpegls", "jpegxr", "jpegxl", "avif", "heif", "ljpeg", "zfp",
      "lerc", "rgbe", "numpy">>

\* the candidates that stand for an extension mapped to 'jpeg'
JpegVariants == <<"jpeg8", "jpeg12", "jpegsof3", "ljpeg">>

RECURSIVE ExtendAll(_, _, _)
\* faulty variant: the names are appended without the membership test
ExtendAll(codecs, names, i) ==
    IF i > Len(names) THEN codecs
    ELSE ExtendAll(Append(codecs, PyStr(names[i])), names, i + 1)

RECURSIVE ExtendNew(_, _, _)
\* codecs.extend(c for c in names if c not in codecs), from names[i] on:
\* the test sees what the generator has appended so far
ExtendNew(codecs, names, i) ==
    IF i > Len(names) THEN codecs
    ELSE IF PyStr(names[i]) \in SeqToSet(codecs)
    THEN ExtendNew(codecs, names, i + 1)
    ELSE ExtendNew(Append(codecs, PyStr(names[i])), names, i + 1)

\* isinstance(fileobj, (str, os.PathLike))
IsPath(fileobj) == fileobj.kind \in {"str", "PathLike"}

\* ext: os.path.splitext(os.fspath(fileobj))[-1][1:].lower(), None for a
\* source that is not a path
FileExt(fileobj) ==
    IF IsPath(fileobj)
    THEN LET x == SplitExt(fileobj.path) IN Lower(SubSeq(x, 2, Len(x)))
    ELSE None

\* the candidates the extension contributes when no codec is given
ExtCandidates(ext) ==
    IF ext \notin DOMAIN ImCodecs THEN <<>>
    ELSE IF ImCodecs[ext] = "jpeg"
    THEN [i \in 1..Len(JpegVariants) |-> PyStr(JpegVariants[i])]
    ELSE <<PyStr(ImCodecs[ext])>>

\* faulty variant: the given codec is taken as it is
HintCandidateAsGiven(c) == c

\* one given codec: a str is lower-cased and looked up in the extension
\* table, anything else is taken as it is
HintCandidate(c) ==
    IF c.kind = "str"
    THEN PyStr(DictGet(ImCodecs, Lower(c.name), Lower(c.name)))
    ELSE c

\* the codecs list imread builds
Candidates(fileobj, codec) ==
    IF codec = PyNone
    THEN ExtendNew(ExtCandidates(FileExt(fileobj)), Fallback, 1)
    ELSE LET given == IF codec.kind \in {"list", "tuple"}
                      THEN codec.items ELSE <<codec>>
         IN  [i \in 1..Len(given) |-> HintCandidate(given[i])]

\* data, offset and close as imread sets them before the trials; offset is
\* None exactly when seekable is FALSE
Acquire(fileobj, memmap) ==
    IF fileobj.kind = "mmap"
    THEN [data |-> Data("mmap", fileobj.content, fileobj.pos),
          seekable |-> TRUE, offset |-> fileobj.pos, close |-> FALSE]
    ELSE IF fileobj.kind = "stream"
    THEN [data |-> Data("bytes", fileobj.content, 0),
          seekable |-> FALSE, offset |-> 0, close |-> FALSE]
    ELSE IF IsPath(fileobj)
    THEN IF memmap
         THEN [data |-> Data("mmap", fileobj.content, 0),
               seekable |-> TRUE, offset |-> 0, close |-> TRUE]
         ELSE [data |-> Data("bytes", fileobj.content, 0),
               seekable |-> FALSE, offset |-> 0, close |-> FALSE]
    ELSE [data |-> Data("bytes", fileobj.content, 0),
          seekable |-> FALSE, offset |-> 0, close |-> FALSE]

\* func.__name__
FuncName(func) == IF func.kind = "stub" THEN func.shape ELSE func.name

\* hasattr(func, '__name__')
HasName(func) == func.kind # "callable" \/ func.named

\* the line appended to exceptions: f'{tag}: {exc}'
Diagnostic(tag, exc) == tag \o ": " \o exc.msg

\* faulty variant: no failure is passed over
SkippedNever(exc) == FALSE

\* except DelayedImportError: pass
Skipped(exc) == exc.type = "DelayedImportError"

\* image.dtype == 'object' for the value a decoder returned: the
\* exception the test or the statement after it raises, if any
DtypeCheck(value) ==
    IF value.kind # "ndarray"
    THEN Exception("AttributeError",
                   Repr(TypeName(value))
                       \o " object has no attribute 'dtype'")
    ELSE IF value.dtype = "object" THEN Exception("ValueError", "failed")
    ELSE NoException

\* the record of one pass through the loop: the candidate, the function
\* it resolved to (None if none), whether the function was called and at
\* which read position, what the lookup or the call returned or raised,
\* and the exception the pass ended with
Trial(codec, func, called, pos, out, error) ==
    [codec |-> codec, func |-> func, called |-> called, pos |-> pos,
     out |-> out, error |-> error]

\* faulty variant: the read position is left where the decoder left it
AfterCallNoSeek(next, func, error, read, src) ==
    IF error = NoException
    THEN [next EXCEPT !.pos = read, !.stop = "break"]
    ELSE IF Skipped(error)
    THEN [next EXCEPT !.pos = read]
    ELSE IF ~HasName(func)
    THEN [next EXCEPT
            !.pos = read, !.stop = "raise",
            !.escaped = Exception("AttributeError",
                Repr(TypeName(func)) \o " object has no attribute '__name__'")]
    ELSE [next EXCEPT
            !.pos = read,
            !.exceptions = Append(@, Diagnostic(Upper(FuncName(func)), error))]

\* the end of a pass whose decoder func was called at st.pos: out is what
\* the call returned or raised, error the exception the try block ended
\* with, read the position the decoder left, next the loop state with
\* image and func assigned
AfterCall(next, func, error, read, src) ==
    IF error = NoException
    THEN [next EXCEPT !.pos = read, !.stop = "break"]
    ELSE IF Skipped(error)
    THEN [next EXCEPT !.pos = IF src.seekable THEN src.offset ELSE read]
    ELSE IF ~HasName(func)
    THEN \* func.__name__ raises inside the except clause
         [next EXCEPT
            !.pos = read, !.stop = "raise",
            !.escaped = Exception("AttributeError",
                Repr(TypeName(func)) \o " object has no attribute '__name__'")]
    ELSE [next EXCEPT
            !.pos = IF src.seekable THEN src.offset ELSE read,
            !.exceptions = Append(@, Diagnostic(Upper(FuncName(func)), error))]

\* image = func(data, **kwargs) and the dtype test: called is the call
\* made, error the exception the try block ends with
CallMade(st, codec, func, called, error, src, moves) ==
    AfterCall(
        [st EXCEPT
            !.ns = called.ns, !.binds = called.binds,
            !.image = IF called.res.raised # NoException THEN st.image
                      ELSE IF error.type = "ValueError" THEN PyNone
                      ELSE called.res.value,
            !.func = func,
            !.trials = Append(@, Trial(codec, func, TRUE, st.pos, called.res,
                                       error))],
        func, error,
        IF src.data.kind = "mmap" /\ func.kind # "stub"
        THEN st.pos + moves ELSE st.pos,
        src)

\* the exception the try block around the call ends with
TryError(out) ==
    IF out.raised # NoException THEN out.raised ELSE DtypeCheck(out.value)

\* the call of the function the candidate resolved to
CallFunc(st, codec, func, called, src, moves) ==
    CallMade(st, codec, func, called, TryError(called.res), src, moves)

\* the pass after the lookup looked of the candidate's decode function
Looked(st, e, codec, looked, src, moves) ==
    IF looked.res.raised # NoException
    THEN \* except Exception: exceptions.append(...); continue
         [st EXCEPT
            !.ns = looked.ns, !.binds = looked.binds,
            !.exceptions = Append(@,
                Diagnostic(Upper(ReprOf(codec)), looked.res.raised)),
            !.trials = Append(@, Trial(codec, PyNone, FALSE, st.pos,
                                       looked.res, looked.res.raised))]
    ELSE CallFunc(st, codec, looked.res.value,
                  CallDecode([ns |-> looked.ns, binds |-> looked.binds], e,
                             looked.res.value,
                             Data(src.data.kind, src.data.content, st.pos)),
                  src, moves)

\* one pass of the loop "for codec in codecs" on the loop state st, for
\* the acquired source src whose memory map a decoder advances by moves
Attempt(st, e, codec, src, moves) ==
    Looked(st, e, codec,
           IF codec.kind = "callable"
           THEN [ns |-> st.ns, binds |-> st.binds, res |-> Return(codec)]
           ELSE IF codec.kind # "str"
           THEN [ns |-> st.ns, binds |-> st.binds,
                 res |-> Raise("TypeError",
                     "unsupported operand type(s) for +: "
                         \o Repr(TypeName(codec)) \o " and 'str'")]
           ELSE NsGetattr([ns |-> st.ns, binds |-> st.binds], e,
                          codec.name \o "_decode"),
           src, moves)

RECURSIVE Trials(_, _, _, _, _, _)
\* the loop "for codec in codecs", from codecs[i] on
Trials(st, e, codecs, i, src, moves) ==
    IF i > Len(codecs) \/ st.stop # "" THEN st
    ELSE Trials(Attempt(st, e, codecs[i], src, moves), e, codecs, i + 1,
                src, moves)

\* what imread does after the loop left the state st: data.close(), then
\* raise or return
AfterTrials(st, codecs, src, return_codec) ==
    [ns |-> st.ns, binds |-> st.binds, codecs |-> codecs,
     seekable |-> src.seekable, offset |-> src.offset, close |-> src.close,
     trials |-> st.trials, exceptions |-> st.exceptions, image |-> st.image,
     func |-> st.func, pos |-> st.pos,
     closed |-> src.close /\ st.stop # "raise",
     res |-> IF st.stop = "raise"
             THEN [raised |-> st.escaped, value |-> PyNone]
             ELSE IF st.image = PyNone
             THEN Raise("ValueError", Join("\n", st.exceptions))
             ELSE IF return_codec
             THEN Return(PyTuple(<<st.image, st.func>>))
             ELSE Return(st.image)]

\* the loop of imread over the candidates codecs on the source src
TrialLoop(s, e, codecs, src, moves, return_codec) ==
    AfterTrials(
        Trials([ns |-> s.ns, binds |-> s.binds, image |-> PyNone,
                func |-> PyNone, exceptions |-> <<>>, trials |-> <<>>,
                pos |-> src.data.pos, stop |-> "", escaped |-> NoException],
               e, codecs, 1, src, moves),
        codecs, src, return_codec)

\* imread(fileobj, codec, memmap, return_codec) run on the namespace s: the
\* namespace after it, the candidates, the trials, and what it returned
\* or raised.  A decoder advances the memory map by moves
ImreadRun(s, e, fileobj, codec, memmap, return_codec) ==
    TrialLoop(s, e, Candidates(fileobj, codec), Acquire(fileobj, memmap),
              fileobj.moves, return_codec)

(***************************************************************************)
(* Generic write: imwrite                                                  *)
(***************************************************************************)
\* what a backend's encoder does with an array: the bytes it returns, named
\* after the codec, or the error it raises for a dtype it cannot store
BackendEncode(name, data) ==
    LET codec == DropLast(name, 7)
    IN  IF data.dtype = "float32" /\ codec \in {"png", "jpeg8", "jpeg12"}
        THEN Raise("ValueError", "invalid data type float32")
        ELSE Return(Data("bytes", codec, 0))

\* calling a backend's encoder or the stub in its place
CallEncoder(func, data) ==
    IF func.kind = "stub" THEN CallStub(func, 1)
    ELSE BackendEncode(func.name, data)

\* func(data, ...) inside jpeg_encode, after the attribute lookup r
EncodeLooked(r, data) ==
    [ns |-> r.ns, binds |-> r.binds,
     res |-> IF r.res.raised # NoException THEN r.res
             ELSE CallEncoder(r.res.value, data)]

\* jpeg_encode(data, lossless=lossless)
JpegEncode(s, e, data, lossless) ==
    IF lossless
    THEN EncodeLooked(NsGetattr(s, e, "ljpeg_encode"), data)
    ELSE IF data.dtype = "uint8"
    THEN EncodeLooked(NsGetattr(s, e, "jpeg8_encode"), data)
    ELSE IF data.dtype = "uint16"
    THEN EncodeLooked(NsGetattr(s, e, "jpeg12_encode"), data)
    ELSE [ns |-> s.ns, binds |-> s.binds,
          res |-> Raise("ValueError", "invalid data type " \o data.dtype)]

\* none_encode(data): returns its argument
NoneEncode(data) == Return(data)

\* numpy_encode(data): the array saved as NPY
NumpyEncode(data) == Return(Data("bytes", "numpy", 0))

\* calling a callable given as a codec to imwrite
CallCallableEncode(f, data) ==
    CASE f.does = "bytes" -> Return(Data("bytes", f.name, 0))
      [] f.does = "unavailable" ->
            [raised |-> DelayedImportError(f.name), value |-> PyNone]
      [] OTHER -> Raise("RuntimeError", "cannot encode")

\* codec(data, **kwargs) in imwrite: the namespace after the call
\* (jpeg_encode looks encoders up) and what the call returned or raised
CallEncode(s, e, func, data) ==
    CASE func.kind = "callable" ->
            [ns |-> s.ns, binds |-> s.binds,
             res |-> CallCallableEncode(func, data)]
      [] func.kind = "global" /\ func.name = "jpeg_encode" ->
            JpegEncode(s, e, data, FALSE)
      [] func.kind = "global" /\ func.name = "numpy_encode" ->
            [ns |-> s.ns, binds |-> s.binds, res |-> NumpyEncode(data)]
      [] func.kind = "global" /\ func.name = "none_encode" ->
            [ns |-> s.ns, binds |-> s.binds, res |-> NoneEncode(data)]
      [] OTHER ->
            [ns |-> s.ns, binds |-> s.binds, res |-> CallEncoder(func, data)]

\* ext of imwrite: os.path.splitext(os.fspath(fileobj))[-1].lower()[1:]
WriteExt(fileobj) ==
    LET x == Lower(SplitExt(fileobj.path)) IN SubSeq(x, 2, Len(x))

\* raise ValueError(f'invalid codec {codec!r}')
InvalidCodec(repr) == Raise("ValueError", "invalid codec " \o repr)

\* faulty variant: a selector without an encode function is passed on to
\* the call as it is
EncoderLookedUnchecked(codec, looked) ==
    [ns |-> looked.ns, binds |-> looked.binds,
     res |-> IF looked.res.raised # NoException
             THEN Return(PyStr(codec)) ELSE looked.res]

\* try: getattr(imagecodecs, codec + '_encode')  except AttributeError:
\* raise ValueError; any other exception of the lookup propagates
EncoderLooked(codec, looked) ==
    [ns |-> looked.ns, binds |-> looked.binds,
     res |-> IF looked.res.raised.type = "AttributeError"
             THEN InvalidCodec(Repr(codec))
             ELSE looked.res]

\* the lookup of the encode function of the codec named codec
EncoderNamed(s, e, codec) ==
    EncoderLooked(codec, NsGetattr(s, e, codec \o "_encode"))

\* the first part of imwrite: the function that codec selects, or the
\* exception raised instead
Encoder(s, e, fileobj, codec) ==
    IF codec = PyNone
    THEN IF IsPath(fileobj)
         THEN EncoderNamed(s, e,
                  DictGet(ImCodecs, WriteExt(fileobj), WriteExt(fileobj)))
         ELSE [ns |-> s.ns, binds |-> s.binds,
               res |-> Raise("ValueError", "no codec specified")]
    ELSE IF codec.kind = "str"
    THEN EncoderNamed(s, e,
             DictGet(ImCodecs, Lower(codec.name), Lower(codec.name)))
    ELSE IF codec.kind # "callable"
    THEN [ns |-> s.ns, binds |-> s.binds, res |-> InvalidCodec(ReprOf(codec))]
    ELSE [ns |-> s.ns, binds |-> s.binds, res |-> Return(codec)]

\* str(fileobj) of a destination that has no write method
DestName(fileobj) ==
    IF IsPath(fileobj) THEN fileobj.path ELSE "<" \o fileobj.kind \o ">"

\* faulty variant: the file is closed only after a write that succeeded
WithOpenNoExit(fileobj) ==
    IF fileobj.fault = "open"
    THEN [opened |-> FALSE, wrote |-> "", handle |-> "none",
          res |-> Raise("OSError", "cannot open " \o DestName(fileobj))]
    ELSE IF fileobj.fault = "write"
    THEN [opened |-> TRUE, wrote |-> "", handle |-> "open",
          res |-> Raise("OSError", "cannot write")]
    ELSE [opened |-> TRUE, wrote |-> DestName(fileobj), handle |-> "closed",
          res |-> Return(PyNone)]

\* with open(str(fileobj), 'wb') as fh: fh.write(data).  open may raise,
\* and so may write after the file was created or truncated; the with
\* statement closes the file it opened however its body ends.  handle is
\* the state of the file handle afterwards
WithOpen(fileobj) ==
    IF fileobj.fault = "open"
    THEN [opened |-> FALSE, wrote |-> "", handle |-> "none",
          res |-> Raise("OSError", "cannot open " \o DestName(fileobj))]
    ELSE IF fileobj.fault = "write"
    THEN [opened |-> TRUE, wrote |-> "", handle |-> "closed",
          res |-> Raise("OSError", "cannot write")]
    ELSE [opened |-> TRUE, wrote |-> DestName(fileobj), handle |-> "closed",
          res |-> Return(PyNone)]

\* fileobj.write(data) for a destination that has a write method: imwrite
\* opens and closes nothing
StreamWrite(fileobj) ==
    IF fileobj.fault = "write"
    THEN [opened |-> FALSE, wrote |-> "", handle |-> "none",
          res |-> Raise("OSError", "cannot write")]
    ELSE [opened |-> FALSE, wrote |-> "<stream>", handle |-> "none",
          res |-> Return(PyNone)]

\* the end of imwrite: encoded is what codec(data) did; the encoded data is
\* written to the stream, or to the file opened (created or truncated) for
\* it.  wrote tells where the data went, opened whether a file was opened
Written(fileobj, func, encoded) ==
    LET w == IF encoded.res.raised # NoException
             THEN [opened |-> FALSE, wrote |-> "", handle |-> "none",
                   res |-> encoded.res]
             ELSE IF fileobj.kind = "stream" THEN StreamWrite(fileobj)
             ELSE WithOpen(fileobj)
    IN  [ns |-> encoded.ns, binds |-> encoded.binds, func |-> func,
         encoded |-> encoded.res, called |-> TRUE, opened |-> w.opened,
         wrote |-> w.wrote, handle |-> w.handle, res |-> w.res]

\* imwrite after the selection sel of the encode function
Selected(sel, e, fileobj, data) ==
    IF sel.res.raised # NoException
    THEN [ns |-> sel.ns, binds |-> sel.binds, func |-> PyNone,
          encoded |-> Return(PyNone), called |-> FALSE, opened |-> FALSE,
          wrote |-> "", handle |-> "none", res |-> sel.res]
    ELSE Written(fileobj, sel.res.value,
                 CallEncode([ns |-> sel.ns, binds |-> sel.binds], e,
                            sel.res.value, data))

\* imwrite(fileobj, data, codec) run on the namespace s
ImwriteRun(s, e, fileobj, data, codec) ==
    Selected(Encoder(s, e, fileobj, codec), e, fileobj, data)

(***************************************************************************)
(* Version report: version                                                 *)
(***************************************************************************)
RECURSIVE Split(_, _)
\* s.split(c) for a one-character string c
Split(s, c) ==
    IF IndexOf(c, s) = 0 THEN <<s>>
    ELSE <<SubSeq(s, 1, IndexOf(c, s) - 1)>>
            \o Split(SubSeq(s, IndexOf(c, s) + 1, Len(s)), c)

RECURSIVE Replace(_, _, _)
\* s.replace(c, d) for one-character strings c and d
Replace(s, c, d) ==
    IF Len(s) = 0 THEN ""
    ELSE (IF CharAt(s, 1) = c THEN d ELSE CharAt(s, 1))
            \o Replace(Tail(s), c, d)

\* sorted(S) for a set of str
SortedSet(S) ==
    LET before == [x \in S |-> Cardinality({y \in S : StrLess(y, x)})] @@ <<>>
    IN  [k \in 1..Cardinality(S) |-> CHOOSE x \in S : before[x] = k - 1]

\* f'imagecodecs {__version__}'
OwnVersion == "imagecodecs 2022.9.26"

\* the version functions called first, in this order
LeadNames ==
    <<"cython_version", "numpy_version", "numpy_abi_version", "imcd_version">>

\* the names v of _ATTRIBUTES, in its order, that end in _version and are
\* not left out
VersionNames ==
    SelectSeq(AttributeList,
              LAMBDA v : /\ EndsWith(v, "_version")
                         /\ v \notin {"imcd_version", "numpy_abi_version",
                                      "numpy_version", "cython_version",
                                      "none_version"})

\* obj(): the version string of a backend or of the package's own
\* numpy_version, the string of a version stub; None is not callable
CallVersion(obj) ==
    CASE obj.kind = "stub" -> CallStub(obj, 0)
      [] obj.kind = "none" ->
            Raise("TypeError", "'NoneType' object is not callable")
      [] OTHER -> Return(PyStr(DropLast(obj.name, 8) \o " 1.0"))

\* getattr(imagecodecs, v)(), r being the lookup
CalledVersion(r) ==
    [ns |-> r.ns, binds |-> r.binds,
     res |-> IF r.res.raised # NoException THEN r.res
             ELSE CallVersion(r.res.value)]

\* the strings collected so far, with the one the call c returned
Collected(st, c) ==
    [ns |-> c.ns, binds |-> c.binds,
     out |-> IF c.res.raised = NoException
             THEN Append(st.out, c.res.value.name) ELSE st.out,
     raised |-> c.res.raised]

RECURSIVE Collect(_, _, _, _)
\* getattr(imagecodecs, v)() for the names from names[i] on, until one
\* raises
Collect(st, e, names, i) ==
    IF i > Len(names) \/ st.raised # NoException THEN st
    ELSE Collect(
            Collected(st, CalledVersion(
                NsGetattr([ns |-> st.ns, binds |-> st.binds], e, names[i]))),
            e, names, i + 1)

\* the second _versions_.extend: first is what the list holds already,
\* rest what the set comprehension collected or raised
Extended(first, rest) ==
    [ns |-> rest.ns, binds |-> rest.binds,
     versions |-> IF rest.raised = NoException
                  THEN first \o SortedSet(SeqToSet(rest.out)) ELSE first,
     raised |-> rest.raised]

\* the first _versions_.extend, lead being what its tuple collected or
\* raised, and then the second
Filled(lead, e) ==
    IF lead.raised # NoException
    THEN [ns |-> lead.ns, binds |-> lead.binds, versions |-> <<>>,
          raised |-> lead.raised]
    ELSE Extended(lead.out,
                  Collect([lead EXCEPT !.out = <<>>], e, VersionNames, 1))

\* dict(ver.split(' ') for ver in v): every element must have two parts, a
\* later one replaces an earlier one of the same key
AsDict(v) ==
    IF \E i \in 1..Len(v) : Len(Split(v[i], " ")) # 2
    THEN Raise("ValueError",
               "dictionary update sequence element has not length 2")
    ELSE Return([kind |-> "dict",
                 items |-> [k \in {Split(v[i], " ")[1] : i \in 1..Len(v)} |->
                     Split(v[Max({i \in 1..Len(v) :
                                    Split(v[i], " ")[1] = k})], " ")[2]]])

\* the value version returns for the list v
Report(v, astype) ==
    CASE astype \in {"None", "str"} ->
            Return(PyStr(Join(", ",
                [i \in 1..Len(v) |-> Replace(v[i], " ", "-")])))
      [] astype = "dict" -> AsDict(v)
      [] OTHER -> Return(PyTuple([i \in 1..Len(v) |-> PyStr(v[i])]))

\* the end of version: f is what filling the list did
Reported(f, astype) ==
    [ns |-> f.ns, binds |-> f.binds, versions |-> f.versions,
     res |-> IF f.raised # NoException
             THEN [raised |-> f.raised, value |-> PyNone]
             ELSE Report(f.versions, astype)]

\* version(astype) run on the namespace s.ns and the kept list s.versions
VersionRun(s, e, astype) ==
    IF s.versions # <<>>
    THEN Reported([ns |-> s.ns, binds |-> s.binds, versions |-> s.versions,
                   raised |-> NoException], astype)
    ELSE Reported(
            Filled(Collect([ns |-> s.ns, binds |-> s.binds,
                            out |-> <<OwnVersion>>, raised |-> NoException],
                           e, LeadNames, 1), e),
            astype)

(***************************************************************************)
(* Bounds: the installations and the inputs the model explores             *)
(***************************************************************************)
\* at most this many attributes are left out by the backends that import
MaxLacking == 1
\* a module is imported at most this many times (an import that keeps
\* failing uncaught is otherwise repeated without end)
MaxBinds == 2
\* at most this many positional arguments are passed to a looked-up object
MaxArgs == 1

\* at most this many backends fail to import
MaxMissing == 1
\* the backends whose import may fail
EnvModules == {"zlib", "zopfli"}
\* the attributes an imported backend may not provide
LackNames == {"ZLIB", "zopfli_encode"}
\* how a failing import fails: ImportError; AttributeError with _shared
\* importable; AttributeError with _shared failing too
FailureKinds == {"ImportError", "AttributeError", "AttributeError, _shared"}

Installation(m, kind, l) ==
    [missing |-> IF kind = "ImportError" THEN m ELSE {},
     abi |-> IF kind = "ImportError" THEN {} ELSE m,
     shared |-> m = {} \/ kind # "AttributeError, _shared",
     lacks |-> l]

Environments ==
    {Installation(m, kind, l) :
        m \in {x \in SUBSET EnvModules : Cardinality(x) <= MaxMissing},
        kind \in FailureKinds,
        l \in {x \in SUBSET LackNames : Cardinality(x) <= MaxLacking}}

\* the names callers look up
LookupNames ==
    {"zlib_decode", "ZLIB", "zopfli_decode", "zopfli_encode",
     "missing_decode"}

\* what the caller does with the looked-up object: nothing, call it with
\* some arguments, test its truth, or read a member of it
Uses ==
    {[how |-> "get", nargs |-> 0], [how |-> "bool", nargs |-> 0],
     [how |-> "member", nargs |-> 0]}
    \cup {[how |-> "call", nargs |-> k] : k \in 0..MaxArgs}

\* the sets of backends that fail to import where files are read
ReadMissing == {{}, {"png"}, {"tiff", "jpeg8"}}

ReadEnvironments ==
    {Installation(m, kind, {}) : m \in ReadMissing, kind \in FailureKinds}

\* the paths read
Paths == {"a.png", "A.JPG", "x.brn", ".png", "dir.d/raw"}
\* what the sources hold: a PNG image, a 12-bit JPEG, a lossless JPEG, a
\* file whose decoded array has dtype object, and no image at all
Contents == {"png", "jpeg12", "ljpeg", "object", "garbage"}

\* the sources read: paths as str and as os.PathLike, memory maps at a
\* read position whose decoders advance it by moves, open streams, bytes
FileObjs ==
    {[kind |-> "str", path |-> p, content |-> c, pos |-> 0, moves |-> 1] :
        p \in Paths, c \in Contents}
    \cup {[kind |-> "PathLike", path |-> "p.tif", content |-> c, pos |-> 0,
           moves |-> 1] : c \in Contents}
    \cup {[kind |-> "mmap", path |-> "", content |-> c, pos |-> p,
           moves |-> m] : c \in Contents, p \in {0, 1}, m \in {0, 1}}
    \cup {[kind |-> k, path |-> "", content |-> c, pos |-> 0, moves |-> 1] :
            k \in {"stream", "bytes"}, c \in Contents}

\* the callables given as codecs
Callables ==
    {Callable("mydecode", TRUE, "raise"),
     Callable("mydecode", TRUE, "array"),
     Callable("mydecode", TRUE, "nodtype"),
     Callable("", FALSE, "raise")}

\* the codec argument: None, a name, a callable, something else, a list
\* or a tuple of these
Hints ==
    {PyNone, PyInt(5)}
    \cup {PyStr(s) : s \in {"png", "PNG", "jpeg", "JPG", "ljpeg", "foo",
                            "zopfli"}}
    \cup Callables
    \cup {PyList(<<PyStr("none"), PyStr("png")>>),
          PyList(<<PyStr("jpeg"), PyStr("brn")>>),
          PyTuple(<<PyStr("tiff"), Callable("mydecode", TRUE, "array")>>)}

\* the destinations written: paths as str and as os.PathLike, an open
\* stream, and an object that is neither (its str() names the file)
WritePaths == {"out.png", "OUT.JPG", "x.XYZ", "noext", "a.tif"}

\* what goes wrong at the destination: nothing, the file cannot be opened,
\* or the data cannot be written
Faults == {"", "open", "write"}

Dests ==
    {[kind |-> "str", path |-> p, fault |-> f] :
        p \in WritePaths, f \in Faults}
    \cup {[kind |-> "PathLike", path |-> "p.Jp2", fault |-> f] : f \in Faults}
    \cup {[kind |-> "stream", path |-> "", fault |-> f] : f \in {"", "write"}}
    \cup {[kind |-> "bytes", path |-> "", fault |-> ""]}

\* the arrays written
WriteData == {Array(d, "caller") : d \in {"uint8", "uint16", "float32"}}

\* the codec argument of imwrite: None, a name, a callable, something else
WriteCodecs ==
    {PyNone, PyInt(5)}
    \cup {PyStr(s) : s \in {"png", "PNG", "jpg", "none", "Foo", "zopfli"}}
    \cup {Callable("myencode", TRUE, "bytes"),
          Callable("myencode", TRUE, "raise")}

\* the installations where versions are asked for: the backends that fail
\* to import, and whether zlib has its version function
VersionMissing == {{}, {"zlib"}, {"aec", "imcd"}}

VersionEnvironments ==
    {Installation(m, kind, l) :
        m \in VersionMissing, kind \in FailureKinds,
        l \in {{}, {"zlib_version"}}}

\* the astype argument of version: None (str does the same), dict, tuple
AsTypes == {"None", "dict", "tuple"}

\* the version functions callers look up
VersionLookupNames == {"zlib_version", "jpeg_version", "aec_version"}

\* the threads that look attributes up at the same time
Threads == {"t1", "t2"}

\* a thread that is not inside __getattr__
Idle == [at |-> "idle"]

(***************************************************************************)
(* Initial state: the package has just been imported                       *)
(***************************************************************************)
Startup(e) ==
    /\ API = RegisterCodecs.api
    /\ ATTRIBUTES = RegisterCodecs.attributes
    /\ CODECS = RegisterCodecs.codecs
    /\ ns = [n \in Globals |-> Global(n)]
    /\ binds = [m \in Modules \ {None} |-> 0]
    /\ env = e
    /\ versions = <<>>
    /\ pc = [t \in Threads |-> Idle]
    /\ ret = [op |-> "import"]

Init == \E e \in Environments : Startup(e)

(***************************************************************************)
(* Operations                                                              *)
(***************************************************************************)
\* the module whose import a lookup of name would attempt, None if none
Owner(name) ==
    DictGet(ATTRIBUTES, DictGet(COMPATIBILITY, name, name), None)

\* a lookup of name imports nothing, or a module imported fewer than
\* MaxBinds times
Importable(name) ==
    (name \notin DOMAIN ns /\ Owner(name) # None)
        => binds[Owner(name)] < MaxBinds

\* the outcome of using a looked-up object: that of the stub, or whatever
\* the package's or the backend's own object does
UseObject(obj, use) ==
    IF use.how = "get" THEN Return(obj)
    ELSE IF obj.kind # "stub"
    THEN Return(Object("result", obj.name, obj.module, use.how, TRUE, 0))
    ELSE CASE use.how = "call" -> CallStub(obj, use.nargs)
           [] use.how = "bool" -> StubBool(obj)
           [] OTHER -> StubGetattr(obj, "shape")

\* imagecodecs.<name>, then <object>(...), bool(<object>) or <object>.shape
Lookup(name, use) ==
    LET r == NsGetattr([ns |-> ns, binds |-> binds], env, name)
    IN  /\ Importable(name)
        /\ ns' = r.ns
        /\ binds' = r.binds
        /\ ret' = [op |-> "getattr", name |-> name,
                   hit |-> name \in DOMAIN ns, res |-> r.res,
                   use |-> use,
                   used |-> IF r.res.raised # NoException THEN r.res
                            ELSE UseObject(r.res.value, use)]
        /\ UNCHANGED <<API, ATTRIBUTES, CODECS, env, versions, pc>>

Next ==
    \/ \E name \in LookupNames, use \in Uses : Lookup(name, use)

Spec == Init /\ [][Next]_vars

\* dir(imagecodecs): __dir__()
DirCall ==
    /\ SeqToSet(AttributeList) = DOMAIN ATTRIBUTES
    /\ ret' = [op |-> "dir", names |-> DirList]
    /\ UNCHANGED <<API, ATTRIBUTES, CODECS, ns, binds, env, versions, pc>>

\* the names looked up where aliases are in question: two canonical names
\* of one module and their aliases
AliasLookupNames ==
    {"zlib_decode", "zlib_check", "zopfli_decode", "zopfli_check"}

NextNames ==
    \/ \E name \in AliasLookupNames :
          Lookup(name, [how |-> "get", nargs |-> 0])
    \/ DirCall

SpecNames == Init /\ [][NextNames]_vars

\* imread(fileobj, codec, memmap, return_codec).  A failing import that is
\* not caught is repeated by every read: at most MaxBinds times
Imread(fileobj, codec, memmap, return_codec) ==
    \E r \in {ImreadRun([ns |-> ns, binds |-> binds], env, fileobj, codec,
                        memmap, return_codec)} :
        /\ \A m \in env.abi : r.binds[m] <= MaxBinds
        /\ ns' = r.ns
        /\ binds' = r.binds
        /\ ret' = [op |-> "imread", fileobj |-> fileobj, codec |-> codec,
                   memmap |-> memmap, return_codec |-> return_codec,
                   codecs |-> r.codecs, seekable |-> r.seekable,
                   offset |-> r.offset, close |-> r.close,
                   trials |-> r.trials, exceptions |-> r.exceptions,
                   image |-> r.image, func |-> r.func, pos |-> r.pos,
                   closed |-> r.closed, res |-> r.res]
        /\ UNCHANGED <<API, ATTRIBUTES, CODECS, env, versions, pc>>

InitRead == \E e \in ReadEnvironments : Startup(e)

\* a run reads one source, any number of times: the arguments are any at
\* the first read and the same ones afterwards
ReadArguments ==
    IF ret.op = "imread"
    THEN {[fileobj |-> ret.fileobj, codec |-> ret.codec,
           memmap |-> ret.memmap, return_codec |-> ret.return_codec]}
    ELSE {[fileobj |-> f, codec |-> c, memmap |-> m, return_codec |-> rc] :
            f \in FileObjs, c \in Hints, m \in BOOLEAN, rc \in BOOLEAN}

NextRead ==
    \/ \E a \in ReadArguments :
        Imread(a.fileobj, a.codec, a.memmap, a.return_codec)

SpecRead == InitRead /\ [][NextRead]_vars

\* imwrite(fileobj, data, codec)
Imwrite(fileobj, data, codec) ==
    \E r \in {ImwriteRun([ns |-> ns, binds |-> binds], env, fileobj, data,
                         codec)} :
        /\ \A m \in env.abi : r.binds[m] <= MaxBinds
        /\ ns' = r.ns
        /\ binds' = r.binds
        /\ ret' = [op |-> "imwrite", fileobj |-> fileobj, data |-> data,
                   codec |-> codec, func |-> r.func, encoded |-> r.encoded,
                   called |-> r.called, opened |-> r.opened,
                   wrote |-> r.wrote, handle |-> r.handle, res |-> r.res]
        /\ UNCHANGED <<API, ATTRIBUTES, CODECS, env, versions, pc>>

\* a run writes one array to one destination, any number of times
WriteArguments ==
    IF ret.op = "imwrite"
    THEN {[fileobj |-> ret.fileobj, data |-> ret.data, codec |-> ret.codec]}
    ELSE {[fileobj |-> f, data |-> d, codec |-> c] :
            f \in Dests, d \in WriteData, c \in WriteCodecs}

NextWrite ==
    \/ \E a \in WriteArguments : Imwrite(a.fileobj, a.data, a.codec)

SpecWrite == InitRead /\ [][NextWrite]_vars

\* version(astype)
Version(astype) ==
    \E r \in {VersionRun([ns |-> ns, binds |-> binds, versions |-> versions],
                         env, astype)} :
        /\ \A m \in env.abi : r.binds[m] <= MaxBinds
        /\ ns' = r.ns
        /\ binds' = r.binds
        /\ versions' = r.versions
        /\ ret' = [op |-> "version", astype |-> astype, res |-> r.res]
        /\ UNCHANGED <<API, ATTRIBUTES, CODECS, env, pc>>

InitVersion == \E e \in VersionEnvironments : Startup(e)

NextVersion ==
    \/ \E astype \in AsTypes : Version(astype)
    \/ \E name \in VersionLookupNames :
          Lookup(name, [how |-> "call", nargs |-> 0])

SpecVersion == InitVersion /\ [][NextVersion]_vars

\* the names with which __getattr__ is called directly: module-less names
\* the package defines, an alias of the module-less list, a backend's name
ResolverNames == {"version", "NONE", "numpy_decode", "jpeg_check", "zlib_decode"}

\* imagecodecs.__getattr__(name): the resolver called as a function, for
\* a name that may be attached already
ResolverCall(name) ==
    LET r == GetAttr([ns |-> ns, binds |-> binds], env, name)
    IN  /\ Owner(name) # None => binds[Owner(name)] < MaxBinds
        /\ ns' = r.ns
        /\ binds' = r.binds
        /\ ret' = [op |-> "__getattr__", name |-> name, res |-> r.res]
        /\ UNCHANGED <<API, ATTRIBUTES, CODECS, env, versions, pc>>

NextResolver ==
    \/ \E name \in ResolverNames : ResolverCall(name)
    \/ \E name \in {"zlib_decode", "NONE"} :
          Lookup(name, [how |-> "get", nargs |-> 0])

SpecResolver == Init /\ [][NextResolver]_vars

\* All operations of the package in one run.

\* the installations of such a run: every backend imports; png is not
\* installed; zlib fails to import in the way __getattr__ does not catch
AllEnvironments ==
    {Installation({}, "ImportError", {}),
     Installation({"png"}, "ImportError", {}),
     Installation({"zlib"}, "AttributeError, _shared", {})}

InitAll == \E e \in AllEnvironments : Startup(e)

\* the files read and written in such a run
AllSources ==
    {[kind |-> "str", path |-> "a.png", content |-> c, pos |-> 0,
      moves |-> 1] : c \in {"png", "garbage"}}

AllDests == {[kind |-> "str", path |-> "out.png", fault |-> ""]}

NextAll ==
    \/ \E name \in {"zlib_decode", "zopfli_decode"} :
          Lookup(name, [how |-> "get", nargs |-> 0])
    \/ \E f \in AllSources, c \in {PyNone, PyStr("zlib")} :
          Imread(f, c, TRUE, FALSE)
    \/ \E f \in AllDests, c \in {PyNone, PyStr("zopfli")} :
          Imwrite(f, Array("uint8", "caller"), c)
    \/ \E astype \in {"dict"} : Version(astype)
    \/ DirCall

SpecAll == InitAll /\ [][NextAll]_vars

\* The generic JPEG decoder called by itself.

\* the sets of JPEG backends that fail to import
JpegMissing ==
    {{}, {"jpeg8"}, {"jpeg12"}, {"jpegsof3"}, {"jpegsof3", "ljpeg"}}

JpegEnvironments ==
    {Installation(m, kind, {}) : m \in JpegMissing, kind \in FailureKinds}

InitJpeg == \E e \in JpegEnvironments : Startup(e)

\* what the data holds: an 8-bit JPEG, a 12-bit JPEG, a lossless JPEG that
\* the SOF3 decoder reads, one that only the LJPEG decoder reads, no JPEG
JpegContents == {"jpeg8", "jpeg12", "sof3", "ljpeg", "garbage"}

\* the bitspersample argument: None, 8, 12, another depth
BitsPerSample == {PyNone, PyInt(8), PyInt(12), PyInt(16)}

\* jpeg_decode(data, bitspersample) for bytes data
JpegDecodeCall(content, bitspersample) ==
    \E r \in {JpegDecode([ns |-> ns, binds |-> binds], env,
                         Data("bytes", content, 0), bitspersample)} :
        /\ \A m \in env.abi : r.binds[m] <= MaxBinds
        /\ ns' = r.ns
        /\ binds' = r.binds
        /\ ret' = [op |-> "jpeg_decode", content |-> content,
                   bitspersample |-> bitspersample, calls |-> r.calls,
                   outs |-> r.outs, res |-> r.res]
        /\ UNCHANGED <<API, ATTRIBUTES, CODECS, env, versions, pc>>

NextJpeg ==
    \/ \E c \in JpegContents, b \in BitsPerSample : JpegDecodeCall(c, b)

SpecJpeg == InitJpeg /\ [][NextJpeg]_vars

\* Threads looking names up at the same time.  __getattr__ takes no lock
\* and a thread switch may fall between any two of its statements: each
\* thread t is at a position pc[t] of __getattr__ with its locals.

\* the names the threads look up: canonical names of one backend module
ThreadNames == {"zlib_decode", "zlib_encode"}

\* the installations the threads run in: the backend imports, or its
\* import fails in a way __getattr__ catches
ThreadEnvironments ==
    {Installation(m, kind, {}) :
        m \in {{}, {"zlib"}}, kind \in {"ImportError", "AttributeError"}}

InitThreads == \E e \in ThreadEnvironments : Startup(e)

\* thread t evaluates imagecodecs.<name_>: an attached name is read from
\* the namespace; otherwise __getattr__ is entered and runs up to the try
\* statement
ThreadCall(t, name_) ==
    LET name == DictGet(COMPATIBILITY, name_, name_)
    IN  /\ pc[t] = Idle
        /\ IF name_ \in DOMAIN ns
           THEN /\ ret' = [op |-> "read", thread |-> t, name |-> name_,
                           res |-> Return(ns[name_])]
                /\ pc' = pc
           ELSE IF name \notin DOMAIN ATTRIBUTES
           THEN /\ ret' = [op |-> "getattr", thread |-> t, name |-> name_,
                           res |-> UnknownAttribute(
                                      [ns |-> ns, binds |-> binds], name).res]
                /\ pc' = pc
           ELSE IF ATTRIBUTES[name] = None
           THEN /\ ret' = [op |-> "getattr", thread |-> t, name |-> name_,
                           res |-> Return(PyNone)]
                /\ pc' = pc
           ELSE /\ ret' = [op |-> "enter", thread |-> t, name |-> name_]
                /\ pc' = [pc EXCEPT ![t] =
                            [at |-> "import", name_ |-> name_, name |-> name,
                             module_ |-> ATTRIBUTES[name]]]
        /\ UNCHANGED <<API, ATTRIBUTES, CODECS, ns, binds, env, versions>>

\* thread t runs the try statement: the import, and its handlers
ThreadImport(t) ==
    /\ pc[t].at = "import"
    /\ binds[pc[t].module_] < MaxBinds
    /\ LET imported == ImportModule(env, pc[t].module_)
       IN  /\ binds' = [binds EXCEPT ![pc[t].module_] = @ + 1]
           /\ IF BindRaises(env, imported)
              THEN /\ pc' = [pc EXCEPT ![t] = Idle]
                   /\ ret' = [op |-> "getattr", thread |-> t,
                              name |-> pc[t].name_,
                              res |-> Raise("ImportError", "_shared")]
              ELSE /\ pc' = [pc EXCEPT ![t] =
                               [at |-> "attach", name_ |-> pc[t].name_,
                                name |-> pc[t].name,
                                module_ |-> pc[t].module_,
                                module |-> IF imported = "ok"
                                           THEN pc[t].module_ ELSE None,
                                id |-> binds'[pc[t].module_], i |-> 1]]
                   /\ ret' = [op |-> "import", thread |-> t,
                              name |-> pc[t].name_]
    /\ UNCHANGED <<API, ATTRIBUTES, CODECS, ns, env, versions>>

\* thread t runs one pass of the attach loop, for the entry i of the
\* module's list
ThreadAttach(t) ==
    /\ pc[t].at = "attach"
    /\ pc[t].i <= Len(API[pc[t].module_])
    /\ LET n == API[pc[t].module_][pc[t].i]
       IN  ns' = IF IsTuple(n) \/ n.attr \in DOMAIN COMPATIBILITY THEN ns
                 ELSE SetAttrs(ns,
                        [a \in {n.attr} |->
                            IF /\ pc[t].module # None
                               /\ Provides(env, pc[t].module_, n.attr)
                            THEN Impl(pc[t].module_, n.attr)
                            ELSE MakeStub(n.attr, pc[t].module, pc[t].id)])
    /\ pc' = [pc EXCEPT ![t].i = @ + 1]
    /\ ret' = [op |-> "attach", thread |-> t, name |-> pc[t].name_]
    /\ UNCHANGED <<API, ATTRIBUTES, CODECS, binds, env, versions>>

\* thread t has left the loop: it reads the attribute back, attaches the
\* alias and returns
ThreadFinish(t) ==
    /\ pc[t].at = "attach"
    /\ pc[t].i > Len(API[pc[t].module_])
    /\ pc[t].name \in DOMAIN ns
    /\ ns' = SetAlias(ns, pc[t].name, pc[t].name_)
    /\ pc' = [pc EXCEPT ![t] = Idle]
    /\ ret' = [op |-> "getattr", thread |-> t, name |-> pc[t].name_,
               res |-> Return(ns[pc[t].name])]
    /\ UNCHANGED <<API, ATTRIBUTES, CODECS, binds, env, versions>>

NextThreads ==
    \/ \E t \in Threads, name \in ThreadNames : ThreadCall(t, name)
    \/ \E t \in Threads : ThreadImport(t)
    \/ \E t \in Threads : ThreadAttach(t)
    \/ \E t \in Threads : ThreadFinish(t)

SpecThreads == InitThreads /\ [][NextThreads]_vars

(***************************************************************************)
(* Properties                                                              *)
(***************************************************************************)
\* member names read from a stub object
MemberNames == {"shape", "decode", "value"}

Canonical(name) == DictGet(COMPATIBILITY, name, name)

\* the import of module m does not succeed in this installation
Failed(m) == ImportModule(env, m) # "ok"

\* the import of module m succeeds or fails in a way __getattr__ catches
Caught(m) == ImportModule(env, m) # "AttributeError" \/ env.shared

\* what getattr(imagecodecs, name) would do in the current state
Resolve(name) == NsGetattr([ns |-> ns, binds |-> binds], env, name)

\* Python's False, as a caller sees it
False ==
    [kind |-> "bool", name |-> "False", module |-> None, shape |-> "",
     bound |-> FALSE, id |-> 0]

\* the deferred-unavailability error for name, as the user sees it
Unavailable(name) ==
    [type |-> "DelayedImportError",
     msg |-> "could not import name '" \o name \o "' from 'imagecodecs'"]

\* every call of stub v raises the deferred-unavailability error for name
AlwaysRaises(v, name) ==
    \A k \in 0..MaxArgs : CallStub(v, k).raised = Unavailable(name)

\* the aliases of attributes of module m that are attached
AttachedAliases(m) ==
    {a \in DOMAIN COMPATIBILITY \cap DOMAIN ns : Owner(a) = m}

C2_BindFailureNeverRaises ==
    (ret.op = "getattr" /\ Owner(ret.name) # None /\ Failed(Owner(ret.name)))
        => ret.res.raised = NoException /\ ret.res.value.kind = "stub"

\* C2 (amended): a lookup of an attribute whose backend fails to import
\* with ImportError, or with AttributeError while _shared imports, does
\* not raise and returns a stub; when the import fails with AttributeError
\* and _shared cannot be imported either, the lookup raises that
\* ImportError and attaches nothing.  In both cases every attribute that
\* another, importable backend provides still resolves to the backend's
\* own object.
C2_CaughtBindFailureYieldsStub ==
    (ret.op = "getattr" /\ Owner(ret.name) # None /\ Failed(Owner(ret.name)))
        => /\ IF Caught(Owner(ret.name))
              THEN /\ ret.res.raised = NoException
                   /\ ret.res.value.kind = "stub"
                   /\ ret.res.value.name = Canonical(ret.name)
              ELSE /\ ret.res.raised.type = "ImportError"
                   /\ ret.name \notin DOMAIN ns
           /\ \A n \in DOMAIN ATTRIBUTES \ DOMAIN COMPATIBILITY :
                 LET m == ATTRIBUTES[n]
                 IN  (m # None /\ ~Failed(m) /\ n \notin env.lacks)
                        => Resolve(n).res =
                             [raised |-> NoException,
                              value |-> [kind |-> "impl", name |-> n,
                                         module |-> m, shape |-> "",
                                         bound |-> TRUE, id |-> 0]]

\* C2 witness: a lookup returned a stub for a backend whose import failed
\* while another backend has been imported and attached.
C2_Witness ==
    /\ ret.op = "getattr"
    /\ Owner(ret.name) # None
    /\ Failed(Owner(ret.name))
    /\ ret.res.value.kind = "stub"
    /\ \E n \in DOMAIN ns : ns[n].kind = "impl"

\* C3 (as claimed): every name of the attribute table has an owner, and
\* looking it up yields the backend's object or a stub whose every call
\* raises the deferred-unavailability error naming that very name.
C3_ImplOrStubRaisingForName ==
    (ret.op = "getattr" /\ ret.name \in DOMAIN ATTRIBUTES)
        => /\ ATTRIBUTES[ret.name] \in Modules
           /\ ret.res.raised = NoException
           /\ \/ ret.res.value.kind \in {"impl", "global"}
              \/ /\ ret.res.value.kind = "stub"
                 /\ AlwaysRaises(ret.res.value, ret.name)

\* what a stub for the attribute name c does, by the shape of the name
StubBehaves(v, c) ==
    IF EndsWith(c, "_version")
    THEN /\ CallStub(v, 0).raised = NoException
         /\ CallStub(v, 0).value.kind = "str"
         /\ CallStub(v, 0).value.name \in
                {DropLast(c, 8) \o " n/a", DropLast(c, 8) \o " unknow"}
    ELSE IF EndsWith(c, "_check")
    THEN CallStub(v, 1) = [raised |-> NoException, value |-> False]
    ELSE IF \/ EndsWith(c, "_decode") \/ EndsWith(c, "_encode")
            \/ IsLower(c) \/ EndsWith(c, "Error")
    THEN AlwaysRaises(v, c)
    ELSE /\ CallStub(v, 0).raised = NoException
         /\ \A a \in MemberNames : StubGetattr(v, a).raised = Unavailable(c)

\* C3 (amended): every name of the attribute table has an owner key (a
\* backend module, or None for the package itself).  Looking the name up
\* raises only when the backend's import fails uncaught; otherwise it
\* yields the object of the name's canonical attribute: the backend's or
\* the package's own object, or a stub that behaves by the shape of the
\* canonical name.  A decode, encode, other lower-case or error-kind stub
\* raises the deferred-unavailability error naming the canonical name on
\* every call; a version stub returns a string, a check stub returns
\* false, and a flag or class stub raises only when a member is read.
C3_ImplOrStubByShape ==
    \A n \in DOMAIN ATTRIBUTES :
        /\ ATTRIBUTES[n] \in Modules
        /\ LET r == Resolve(n).res
               c == Canonical(n)
           IN  IF n \notin DOMAIN ns /\ ~Caught(Owner(n))
               THEN r.raised.type = "ImportError"
               ELSE /\ r.raised = NoException
                    /\ r.value.name = c
                    /\ \/ r.value.kind \in {"impl", "global"}
                       \/ /\ r.value.kind = "stub"
                          /\ StubBehaves(r.value, c)

\* C3 witness: a lookup of a table name returned a stub that carries
\* another name (the canonical one) and was then at hand in the namespace.
C3_Witness ==
    /\ ret.op = "getattr"
    /\ ret.name \in DOMAIN ATTRIBUTES
    /\ ret.res.value.kind = "stub"
    /\ ret.res.value.name # ret.name
    /\ ret.name \in DOMAIN ns

TypedArray(v) == v.kind = "ndarray" /\ v.dtype # "object"

\* the image read returned, alone or as the first of the pair
ReturnedImage ==
    IF ret.return_codec THEN ret.res.value.items[1] ELSE ret.res.value

\* read ended with the error it raises itself after the trials
Exhausted == ret.op = "imread" /\ ret.res.raised.type = "ValueError"

\* the trials that ended with an exception other than the
\* deferred-unavailability error
Failures ==
    {i \in 1..Len(ret.trials) :
        /\ ret.trials[i].error # NoException
        /\ ret.trials[i].error.type # "DelayedImportError"}

\* the name a candidate goes by
CandidateName(c) == IF c.kind = "int" THEN ToString(c.value) ELSE c.name

\* C6 (as claimed): the candidates are tried in list order; no candidate is
\* invoked after one whose decode returned an array of a dtype other than
\* object; and when read returns a result, it is the value that the last
\* invoked candidate returned without raising, of a dtype other than
\* object.
C6_ReturnsFirstSuccess ==
    ret.op = "imread" =>
        /\ Len(ret.trials) <= Len(ret.codecs)
        /\ \A i \in 1..Len(ret.trials) : ret.trials[i].codec = ret.codecs[i]
        /\ \A i \in 1..(Len(ret.trials) - 1) :
              ~(/\ ret.trials[i].called
                /\ ret.trials[i].out.raised = NoException
                /\ TypedArray(ret.trials[i].out.value))
        /\ ret.res.raised = NoException =>
              /\ Len(ret.trials) > 0
              /\ LET t == ret.trials[Len(ret.trials)]
                 IN  /\ t.called
                     /\ t.out.raised = NoException
                     /\ ~(t.out.value.kind = "ndarray"
                            /\ t.out.value.dtype = "object")
                     /\ ReturnedImage = t.out.value

\* C7 (as claimed): when read fails after the trials, the message is the
\* lines of one diagnostic per attempted candidate, each holding the
\* candidate's name in upper case, unavailable candidates included.
C7_DiagnosticForEveryCandidate ==
    Exhausted =>
        /\ ret.res.raised.msg = Join("\n", ret.exceptions)
        /\ Len(ret.exceptions) = Len(ret.trials)
        /\ \A i \in 1..Len(ret.trials) :
              Contains(ret.exceptions[i],
                       Upper(CandidateName(ret.trials[i].codec)))

\* the tag of the diagnostic of a trial: the upper-cased name of the decode
\* function, or the upper-cased repr of a candidate that resolved to none
Tag(t) == IF t.called THEN Upper(FuncName(t.func)) ELSE Upper(ReprOf(t.codec))

RECURSIVE ExpectedDiagnostics(_)
\* one line per trial that failed other than by deferred unavailability
ExpectedDiagnostics(trials) ==
    IF trials = <<>> THEN <<>>
    ELSE LET t == Head(trials)
         IN  (IF t.error = NoException \/ t.error.type = "DelayedImportError"
              THEN <<>>
              ELSE <<Tag(t) \o ": " \o t.error.msg>>)
             \o ExpectedDiagnostics(Tail(trials))

\* C7 (amended): when read fails after the trials, every candidate was
\* attempted, and the message is, one per line and in candidate order, one
\* diagnostic for every candidate that failed other than by deferred
\* unavailability: "<TAG>: <error text>", TAG being the upper-cased name of
\* the decode function (PNG_DECODE) or, for a candidate that resolved to no
\* function, its upper-cased repr ('FOO').  An unavailable candidate adds
\* no line, so the message is empty when all were unavailable.
C7_DiagnosticPerRecordedFailure ==
    Exhausted =>
        /\ Len(ret.trials) = Len(ret.codecs)
        /\ ret.res.raised.msg = Join("\n", ExpectedDiagnostics(ret.trials))
        /\ Len(ret.exceptions) = Cardinality(Failures)
        /\ (\A i \in 1..Len(ret.trials) :
                ret.trials[i].error.type = "DelayedImportError")
              => ret.res.raised.msg = ""

\* C7 witness: read failed with an empty message after its only
\* candidate, a codec whose backend is not installed, was attempted.
C7_Witness ==
    /\ Exhausted
    /\ Len(ret.trials) = 1
    /\ ret.trials[1].called
    /\ ret.trials[1].func.kind = "stub"
    /\ ret.res.raised.msg = ""

\* C8 (as claimed): read raises nothing but its own error after the
\* trials; every trial that failed other than by deferred unavailability
\* added exactly one diagnostic; and the loop went on after every failure:
\* all candidates were attempted unless the last attempted one succeeded.
C8_NoCandidateFailurePropagates ==
    ret.op = "imread" =>
        /\ ret.res.raised # NoException =>
              /\ ret.res.raised.type = "ValueError"
              /\ ret.res.raised.msg = Join("\n", ret.exceptions)
        /\ Len(ret.exceptions) = Cardinality(Failures)
        /\ \/ Len(ret.trials) = Len(ret.codecs)
           \/ /\ Len(ret.trials) > 0
              /\ ret.trials[Len(ret.trials)].error = NoException

\* the codecs given: the items of a list or a tuple, or the one codec
GivenCodecs ==
    IF ret.codec.kind \in {"list", "tuple"} THEN ret.codec.items
    ELSE <<ret.codec>>

\* a given name, lower-cased and looked up in the extension table
ResolvedName(c) ==
    LET l == Lower(c.name) IN IF l \in DOMAIN ImCodecs THEN ImCodecs[l] ELSE l

RECURSIVE ExpandJpeg(_)
\* the given codecs with every name that resolves to 'jpeg' replaced by
\* the four JPEG variants
ExpandJpeg(given) ==
    IF given = <<>> THEN <<>>
    ELSE LET c == Head(given)
         IN  (IF c.kind # "str" THEN <<c>>
              ELSE IF ResolvedName(c) = "jpeg"
              THEN [i \in 1..Len(JpegVariants) |-> PyStr(JpegVariants[i])]
              ELSE <<PyStr(ResolvedName(c))>>)
             \o ExpandJpeg(Tail(given))

\* C9 (as claimed): with a codec given, the candidates are the given
\* codecs, each name lower-cased and looked up in the extension table,
\* with 'jpeg' expanded to jpeg8, jpeg12, jpegsof3, ljpeg.
C9_JpegHintExpands ==
    (ret.op = "imread" /\ ret.codec # PyNone)
        => ret.codecs = ExpandJpeg(GivenCodecs)

\* C9 (amended): with a codec given, the candidates are the given codecs
\* one for one and in order (a single codec is a list of one): a name is
\* lower-cased and replaced by the extension table's codec if the table
\* has it as an extension, anything else is taken as it is.  Nothing is
\* expanded: a name that resolves to 'jpeg' is the one candidate 'jpeg',
\* whose decode function is the package's generic jpeg_decode.
C9_HintUsedVerbatim ==
    (ret.op = "imread" /\ ret.codec # PyNone)
        => /\ Len(ret.codecs) = Len(GivenCodecs)
           /\ \A i \in 1..Len(GivenCodecs) :
                 ret.codecs[i] =
                    IF GivenCodecs[i].kind = "str"
                    THEN PyStr(ResolvedName(GivenCodecs[i]))
                    ELSE GivenCodecs[i]
           /\ \A i \in 1..Len(ret.trials) :
                 ret.codecs[i] = PyStr("jpeg")
                    => /\ ret.trials[i].called
                       /\ ret.trials[i].func.kind = "global"
                       /\ ret.trials[i].func.name = "jpeg_decode"

\* C9 witness: read was given 'JPG' and tried the one candidate 'jpeg'
\* with the generic jpeg_decode.
C9_Witness ==
    /\ ret.op = "imread"
    /\ ret.codec = PyStr("JPG")
    /\ ret.codecs = <<PyStr("jpeg")>>
    /\ ret.trials[1].func.name = "jpeg_decode"

\* the fallback codecs that are not among the candidates initial
FallbackWithout(initial) ==
    LET fresh(c) == c \notin SeqToSet(initial)
    IN  SelectSeq([i \in 1..Len(Fallback) |-> PyStr(Fallback[i])], fresh)

\* C10 (as claimed): without a codec given, the candidates are the one
\* codec the extension table gives for the extension of a path, if any,
\* then the fallback codecs not yet in the list, in their fixed order.
C10_InitialCandidateIsSingle ==
    (ret.op = "imread" /\ ret.codec = PyNone)
        => LET ext == FileExt(ret.fileobj)
               initial == IF ext \in DOMAIN ImCodecs
                          THEN <<PyStr(ImCodecs[ext])>> ELSE <<>>
           IN  ret.codecs = initial \o FallbackWithout(initial)

\* C10 (amended): without a codec given, the candidates begin with what
\* the extension of a path (str or os.PathLike), lower-cased, gives in the
\* extension table: nothing for a source that is no path or an extension
\* the table lacks, the four candidates jpeg8, jpeg12, jpegsof3, ljpeg for
\* an extension of 'jpeg', the one codec otherwise.  The fallback codecs
\* not among these follow in their fixed order, and no codec appears
\* twice.
C10_ExtensionThenFallback ==
    (ret.op = "imread" /\ ret.codec = PyNone)
        => LET ext == FileExt(ret.fileobj)
               initial ==
                    IF ext \notin DOMAIN ImCodecs THEN <<>>
                    ELSE IF ImCodecs[ext] = "jpeg"
                    THEN [i \in 1..Len(JpegVariants) |->
                            PyStr(JpegVariants[i])]
                    ELSE <<PyStr(ImCodecs[ext])>>
           IN  /\ ret.codecs = initial \o FallbackWithout(initial)
               /\ \A i, j \in 1..Len(ret.codecs) :
                     ret.codecs[i] = ret.codecs[j] => i = j
               /\ ~IsPath(ret.fileobj) => initial = <<>>

\* C10 witness: read of the path A.JPG without a codec began with the
\* four JPEG variants and went on with the other fifteen fallback codecs.
C10_Witness ==
    /\ ret.op = "imread"
    /\ ret.codec = PyNone
    /\ ret.fileobj.path = "A.JPG"
    /\ SubSeq(ret.codecs, 1, 5) =
          <<PyStr("jpeg8"), PyStr("jpeg12"), PyStr("jpegsof3"),
            PyStr("ljpeg"), PyStr("tiff")>>
    /\ Len(ret.codecs) = 19

\* C11 (as claimed): when read returns the pair (image, function), the
\* function is the decode function of the candidate whose invocation
\* returned that image.
C11_ReturnedFunctionProducedImage ==
    (ret.op = "imread" /\ ret.return_codec /\ ret.res.raised = NoException)
        => \E i \in 1..Len(ret.trials) :
              /\ ret.trials[i].called
              /\ ret.trials[i].out.raised = NoException
              /\ ret.trials[i].out.value = ret.res.value.items[1]
              /\ ret.trials[i].func = ret.res.value.items[2]

(***************************************************************************)
(* Properties of generic write                                             *)
(***************************************************************************)
\* the codec name a selector stands for: lower-cased, and replaced by the
\* extension table's codec where the table has it
SelectorName(x) == IF Lower(x) \in DOMAIN ImCodecs THEN ImCodecs[Lower(x)]
                   ELSE Lower(x)

\* the extension of a destination path, without its dot
DestExt(path) == SubSeq(SplitExt(path), 2, Len(SplitExt(path)))

\* the package has no attribute <codec>_encode
NoEncoder(codec) ==
    codec \o "_encode" \notin
        (DOMAIN ATTRIBUTES \cup DOMAIN COMPATIBILITY \cup Globals)

\* write raised the invalid-codec failure naming the value v, before any
\* encode function was called and before anything was written
Rejected(v) ==
    /\ ret.res.raised = [type |-> "ValueError", msg |-> "invalid codec " \o v]
    /\ ret.func.kind = "none"
    /\ ~ret.opened
    /\ ret.wrote = ""

\* C12: write rejects an invalid codec selector with the invalid-codec
\* failure that names it: with no codec given, the codec of the
\* destination path's extension (lower-cased; mapped through the extension
\* table, else as it is) when the package has no encode attribute for it; a
\* codec name (likewise lower-cased and mapped) without encode attribute; a
\* codec that is neither a string nor callable.  A callable codec is the
\* function called, whatever it is.
C12_InvalidCodecRejected ==
    ret.op = "imwrite" =>
        /\ (ret.codec = PyNone /\ IsPath(ret.fileobj)
              /\ NoEncoder(SelectorName(DestExt(ret.fileobj.path))))
                => Rejected("'" \o SelectorName(DestExt(ret.fileobj.path))
                                \o "'")
        /\ (ret.codec.kind = "str" /\ NoEncoder(SelectorName(ret.codec.name)))
                => Rejected("'" \o SelectorName(ret.codec.name) \o "'")
        /\ ret.codec.kind = "int" => Rejected(ToString(ret.codec.value))
        /\ ret.codec.kind = "callable" => ret.func = ret.codec
        /\ Contains(ret.res.raised.msg, "invalid codec") =>
              \/ ret.codec = PyNone /\ IsPath(ret.fileobj)
                    /\ NoEncoder(SelectorName(DestExt(ret.fileobj.path)))
              \/ ret.codec.kind = "str"
                    /\ NoEncoder(SelectorName(ret.codec.name))
              \/ ret.codec.kind = "int"

\* C12 witness: a write to the path x.XYZ without a codec was rejected
\* naming the lower-cased extension.
C12_Witness ==
    /\ ret.op = "imwrite"
    /\ ret.codec = PyNone
    /\ ret.fileobj.path = "x.XYZ"
    /\ ret.res.raised.msg = "invalid codec 'xyz'"

(***************************************************************************)
(* Properties of aliases and of the enumeration                            *)
(***************************************************************************)
\* two objects that differ at most in which call of _stub made them
SameButId(v, w) == [v EXCEPT !.id = 0] = [w EXCEPT !.id = 0]

\* C13 (as claimed): a lookup of a compatibility alias that returns leaves
\* the returned value attached under the alias, and that value is the very
\* object a lookup of the canonical name returns, whichever of the two was
\* looked up first and whether or not the backend was imported.
C13_AliasIdenticalToCanonical ==
    (/\ ret.op = "getattr"
     /\ ret.name \in DOMAIN COMPATIBILITY
     /\ ret.res.raised = NoException)
        => /\ ret.name \in DOMAIN ns
           /\ ns[ret.name] = ret.res.value
           /\ Resolve(Canonical(ret.name)).res.value = ret.res.value

\* C13 (amended): a lookup of a compatibility alias that returns leaves the
\* returned value attached under the alias.  The value is the object made
\* for the canonical name: the very object a lookup of the canonical name
\* returns when it is the backend's own, and also when the alias is
\* attached by this lookup; a stub attached under the alias earlier is a
\* stub of the same kind for the canonical name, but not the same object
\* once the module was imported again.  A lookup that raises attaches
\* nothing under the alias.
C13_AliasEquivalentToCanonical ==
    (ret.op = "getattr" /\ ret.name \in DOMAIN COMPATIBILITY)
        => IF ret.res.raised = NoException
           THEN /\ ret.name \in DOMAIN ns
                /\ ns[ret.name] = ret.res.value
                /\ ret.res.value.name = Canonical(ret.name)
                /\ SameButId(Resolve(Canonical(ret.name)).res.value,
                             ret.res.value)
                /\ (ret.res.value.kind # "stub" \/ ~ret.hit)
                      => Resolve(Canonical(ret.name)).res.value
                            = ret.res.value
           ELSE ret.name \notin DOMAIN ns

\* C13 witness: an alias looked up again returned the stub attached under
\* it, while the canonical name holds a stub made by a later import.
C13_Witness ==
    /\ ret.op = "getattr"
    /\ ret.name \in DOMAIN COMPATIBILITY
    /\ ret.hit
    /\ ret.res.value.kind = "stub"
    /\ ns[Canonical(ret.name)].kind = "stub"
    /\ ns[Canonical(ret.name)].id # ret.res.value.id

\* the names listed at the positions of q
Listed(q) == {q[i] : i \in 1..Len(q)}

\* how often name is listed in q
Occurrences(q, name) == Cardinality({i \in 1..Len(q) : q[i] = name})

\* the alias names that the declarations of _API list as attributes too
DeclaredAliases ==
    {"JPEG", "jpeg_check", "jpeg_version", "zopfli_check", "zopfli_decode"}

\* C14 (as claimed): no compatibility alias is a key of the attribute
\* table, and the enumeration of the package's names lists no alias.
C14_AliasesNotPrimary ==
    /\ DOMAIN COMPATIBILITY \cap DOMAIN ATTRIBUTES = {}
    /\ ret.op = "dir" => Listed(ret.names) \cap DOMAIN COMPATIBILITY = {}

\* C14 (amended): the aliases JPEG, jpeg_check, jpeg_version, zopfli_check
\* and zopfli_decode are keys of the attribute table as well (the
\* declarations list them), the other aliases are not.  The enumeration
\* is sorted and lists every key of the attribute table and every alias:
\* an alias that is a key of the table twice, every other name once.
C14_EnumerationListsAliases ==
    /\ DOMAIN COMPATIBILITY \cap DOMAIN ATTRIBUTES = DeclaredAliases
    /\ ret.op = "dir" =>
          /\ Listed(ret.names) = DOMAIN ATTRIBUTES \cup DOMAIN COMPATIBILITY
          /\ \A n \in Listed(ret.names) :
                Occurrences(ret.names, n) =
                    IF n \in DeclaredAliases THEN 2 ELSE 1
          /\ \A i \in 1..(Len(ret.names) - 1) :
                ~StrLess(ret.names[i + 1], ret.names[i])

\* C14 witness: the enumeration has been asked for and lists the alias
\* j2k_decode, which is not a key of the attribute table.
C14_Witness ==
    /\ ret.op = "dir"
    /\ "j2k_decode" \in Listed(ret.names)
    /\ "j2k_decode" \notin DOMAIN ATTRIBUTES

\* C15: a lookup of a name that is neither a key of the attribute table nor
\* an alias raises the unknown-attribute error naming it, which is not the
\* deferred-unavailability error; it imports no backend and attaches
\* nothing, and the caller gets no object to use.
C15_UnknownNameFailsAtOnce ==
    [][(/\ ret'.op = "getattr"
        /\ ret'.name \notin DOMAIN ATTRIBUTES \cup DOMAIN COMPATIBILITY)
          => /\ ret'.res.raised =
                   [type |-> "AttributeError",
                    msg |-> "module 'imagecodecs' has no attribute '"
                                \o ret'.name \o "'"]
             /\ ret'.res.raised # Unavailable(ret'.name)
             /\ ret'.used = ret'.res
             /\ ns' = ns
             /\ binds' = binds
      ]_vars

\* C15 witness: the unknown name missing_decode has been looked up and
\* refused after a backend had been imported and attached.
C15_Witness ==
    /\ ret.op = "getattr"
    /\ ret.name = "missing_decode"
    /\ ret.res.raised.type = "AttributeError"
    /\ binds["zlib"] = 1
    /\ "zlib_decode" \in DOMAIN ns

(***************************************************************************)
(* Properties of versions                                                  *)
(***************************************************************************)
\* C16 (as claimed): called without arguments, the stub made for a name
\* ending in _version returns '<codec> n/a' when the backend was not
\* imported and '<codec> unknown' when it was imported but has no version
\* function, <codec> being the stub's name without the suffix.
C16_VersionStubText ==
    (/\ ret.op = "getattr"
     /\ ret.use = [how |-> "call", nargs |-> 0]
     /\ ret.res.raised = NoException
     /\ ret.res.value.kind = "stub"
     /\ EndsWith(ret.res.value.name, "_version"))
        => /\ ret.used.raised = NoException
           /\ ret.used.value.kind = "str"
           /\ ret.used.value.name =
                 DropLast(ret.res.value.name, 8)
                    \o (IF ~ret.res.value.bound THEN " n/a" ELSE " unknown")


\* the version functions whose strings version() collects
BackendVersionNames == SeqToSet(LeadNames) \cup SeqToSet(VersionNames)

\* the version function v is reachable: it belongs to the package itself or
\* to a backend that imports, and then reports something other than 'n/a'
Reachable(v) == Owner(v) = None \/ ~Failed(Owner(v))

\* the first word of the string that the version function v reports
VersionKey(v) == DropLast(DictGet(COMPATIBILITY, v, v), 8)

\* the list q holds the package's own version and four more entries, and
\* after them strings in ascending order, none of them twice
LeadThenSorted(q) ==
    /\ Len(q) >= 5
    /\ q[1] = OwnVersion
    /\ \A i \in 6..(Len(q) - 1) : StrLess(q[i], q[i + 1])

\* a call of version that returned kept a list with one string for every
\* reachable version function, and as a mapping returned a key for each of
\* them and for the package
CompleteReport ==
    (ret.op = "version" /\ ret.res.raised = NoException)
        => /\ LeadThenSorted(versions)
           /\ \A v \in BackendVersionNames :
                Reachable(v) =>
                    \E i \in 1..Len(versions) :
                        Split(versions[i], " ")[1] = VersionKey(v)
           /\ ret.astype = "dict" =>
                /\ "imagecodecs" \in DOMAIN ret.res.value.items
                /\ \A v \in BackendVersionNames :
                      Reachable(v) =>
                          VersionKey(v) \in DOMAIN ret.res.value.items

\* a call of version that follows another with the same argument ends as
\* that one did
RepeatedReport ==
    (/\ ret.op = "version"
     /\ ret'.op = "version"
     /\ ret'.astype = ret.astype) => ret'.res = ret.res

\* C17: the version report holds one version string per backend whose
\* version function is reachable, the strings after the five leading ones
\* without duplicates and in ascending order; requested as a mapping it has
\* a key for the package and for every backend that reports a value other
\* than 'n/a'; repeated calls return the same report.
C17_VersionReport == []CompleteReport /\ [][RepeatedReport]_vars


(***************************************************************************)
(* Properties of concurrent lookups                                        *)
(***************************************************************************)
\* every name the attach loop sets for module m is attached
Whole(m) == AttachedNames(API, m) \subseteq DOMAIN ns

\* C18: with two threads performing the first lookup of attributes of one
\* backend module at the same time, in every interleaving the module is
\* bound only once, and a thread that reads an attached attribute of the
\* module finds all of the module's attributes attached.
C18_BoundOnceNeverPartial ==
    /\ \A m \in DOMAIN binds : binds[m] <= 1
    /\ ret.op = "read" => Whole(Owner(ret.name))


(***************************************************************************)
(* Properties of the namespace cache                                       *)
(***************************************************************************)
\* C19: over any sequence of lookups the namespace grows monotonically: a
\* name once attached stays attached, and a value that is not a stub, once
\* attached under a name, is never replaced by a different value.
C19_AttachMonotonic ==
    [][/\ DOMAIN ns \subseteq DOMAIN ns'
       /\ \A n \in DOMAIN ns \cap DOMAIN ns' :
             ns[n].kind # "stub" => ns'[n] = ns[n]]_vars

\* a lookup of an alias has imported the module of zlib_decode a second
\* time and run the attach loop over names that the backend provides and
\* that were attached before
C19_Witness ==
    /\ ret.op = "getattr"
    /\ ret.name = "zopfli_decode"
    /\ ~ret.hit
    /\ binds["zlib"] = 2
    /\ "zlib_decode" \in DOMAIN ns
    /\ ns["zlib_decode"].kind = "impl"


\* the attribute names that the module-to-attribute table declares for m
DeclaredNames(m) ==
    {API[m][i].attr : i \in {j \in 1..Len(API[m]) : ~IsTuple(API[m][j])}}

\* n is attached as the backend's value when the backend m imports and
\* provides it, and as a stub for n otherwise
AttachedFrom(m, n) ==
    /\ n \in DOMAIN ns
    /\ IF ~Failed(m) /\ Provides(env, m, n)
       THEN ns[n] = Impl(m, n)
       ELSE ns[n].kind = "stub" /\ ns[n].name = n

\* a lookup that entered __getattr__ for a backend's name has returned
FirstLookupReturned ==
    /\ ret.op = "getattr"
    /\ ~ret.hit
    /\ ret.res.raised = NoException
    /\ Owner(ret.name) # None

\* C20 as claimed: after the first lookup of an attribute owned by a
\* backend module M returns, every attribute the table declares for M is
\* attached, as the backend's value when M provides it and as a stub
\* otherwise.
C20_WholeModuleAttached ==
    (FirstLookupReturned /\ ret.name \in DOMAIN ATTRIBUTES)
        => \A n \in DeclaredNames(ATTRIBUTES[ret.name]) :
              AttachedFrom(ATTRIBUTES[ret.name], n)

\* C20 as the code has it: M is the module of the name the lookup resolves
\* to, which for a compatibility alias is the module of its canonical name;
\* every name declared for M that is not itself a compatibility alias is
\* attached, as the backend's value or as a stub, and so is the name that
\* was looked up.
C20_ModuleAttachedButAliases ==
    FirstLookupReturned
        => /\ \A n \in DeclaredNames(Owner(ret.name)) \ DOMAIN COMPATIBILITY :
                AttachedFrom(Owner(ret.name), n)
           /\ ret.name \in DOMAIN ns

\* the first lookup of zopfli_encode returned in an installation whose
\* zopfli backend lacks it: the name is attached as a stub, ZOPFLI as the
\* backend's value, and the declared alias zopfli_check is not attached
C20_Witness ==
    /\ FirstLookupReturned
    /\ ret.name = "zopfli_encode"
    /\ env.lacks = {"zopfli_encode"}
    /\ "zopfli_encode" \in DOMAIN ns /\ ns["zopfli_encode"].kind = "stub"
    /\ "ZOPFLI" \in DOMAIN ns /\ ns["ZOPFLI"].kind = "impl"
    /\ "zopfli_check" \in DeclaredNames("zopfli") \ DOMAIN ns

(***************************************************************************)
(* Properties of alias attachment                                          *)
(***************************************************************************)
\* the compatibility aliases of the canonical name n
AliasesOf(n) == {a \in DOMAIN COMPATIBILITY : COMPATIBILITY[a] = n}

\* C21 as claimed: whenever a value is attached under a canonical name it
\* is attached under every compatibility alias of that name as well.
C21_AliasesAttachedWithCanonical ==
    \A n \in DOMAIN ns :
        \A a \in AliasesOf(n) : a \in DOMAIN ns /\ ns[a] = ns[n]

\* C21 as the code has it: an alias becomes attached only by a lookup of
\* that alias itself, which is not a cache hit and attaches the value that
\* is attached under the canonical name at that moment; a lookup of an
\* alias is a cache hit exactly when the alias was attached before.
C21_AliasAttachedByOwnLookup ==
    [][/\ \A a \in DOMAIN COMPATIBILITY :
             (a \notin DOMAIN ns /\ a \in DOMAIN ns')
                 => /\ ret'.op = "getattr"
                    /\ ret'.name = a
                    /\ ~ret'.hit
                    /\ COMPATIBILITY[a] \in DOMAIN ns'
                    /\ ns'[a] = ns'[COMPATIBILITY[a]]
       /\ (ret'.op = "getattr" /\ ret'.name \in DOMAIN COMPATIBILITY)
             => (ret'.hit <=> ret'.name \in DOMAIN ns)]_vars

\* the canonical names of zlib are attached, the alias zopfli_check is not,
\* and a lookup of the alias zopfli_decode, attached by an earlier lookup
\* of it, was a cache hit
C21_Witness ==
    /\ ret.op = "getattr"
    /\ ret.name = "zopfli_decode"
    /\ ret.hit
    /\ "zlib_check" \in DOMAIN ns
    /\ "zopfli_check" \notin DOMAIN ns
    /\ binds["zlib"] = 2

(***************************************************************************)
(* Properties of module-less names                                         *)
(***************************************************************************)
\* name is registered and its owning module is None
ModuleLess(name) ==
    /\ DictGet(COMPATIBILITY, name, name) \in DOMAIN ATTRIBUTES
    /\ ATTRIBUTES[DictGet(COMPATIBILITY, name, name)] = None

\* C22: the resolver invoked for a registered name whose owning module is
\* None returns the value the package has under that name, and binds no
\* backend.
C22_ModuleLessValueReturned ==
    [][(ret'.op = "__getattr__" /\ ModuleLess(ret'.name))
          => /\ ret'.res = Return(Global(ret'.name))
             /\ binds' = binds]_vars

(***************************************************************************)
(* Properties of the source in generic read                                *)
(***************************************************************************)
\* C23: in generic read with a seekable source, the decode function of
\* every candidate is called with the source's read position at the
\* original offset, whatever happened to the candidates before it.
C23_DecodeAtOriginalOffset ==
    (ret.op = "imread" /\ ret.seekable)
        => \A i \in 1..Len(ret.trials) :
              ret.trials[i].called => ret.trials[i].pos = ret.offset

\* a memory map given at position 1 whose decoders advance it: a candidate
\* was called after an earlier one was called and failed, and after one
\* that was unavailable or could not be resolved
C23_Witness ==
    /\ ret.op = "imread"
    /\ ret.seekable
    /\ ret.offset = 1
    /\ ret.fileobj.moves = 1
    /\ \E i \in 1..Len(ret.trials) :
          /\ ret.trials[i].called
          /\ ret.trials[i].func.kind # "stub"
          /\ \E j \in 1..(i - 1) :
                /\ ret.trials[j].called
                /\ ret.trials[j].func.kind # "stub"
                /\ ret.trials[j].error # NoException
          /\ \E j \in 1..(i - 1) :
                \/ ~ret.trials[j].called
                \/ ret.trials[j].error.type = "DelayedImportError"

(***************************************************************************)
(* Properties of flag stubs                                                *)
(***************************************************************************)
\* a lookup of an all-upper-case name returned a stub, which was then used
FlagStubUsed ==
    /\ ret.op = "getattr"
    /\ IsUpper(ret.name)
    /\ ret.res.raised = NoException
    /\ ret.res.value.kind = "stub"

\* reading a member of the looked-up flag stub raised the
\* deferred-unavailability error naming the flag
FlagMemberUnavailable ==
    ret.use.how = "member"
        => ret.used.raised = DelayedImportError(ret.res.value.name)

\* C24 as claimed: the stub for an all-upper-case flag is false whenever the
\* backend does not provide the flag, whether the backend failed to bind or
\* bound without the flag, and reading a member of it raises
\* deferred-unavailability in both cases.
C24_FlagStubAlwaysFalse ==
    FlagStubUsed
        => /\ ret.use.how = "bool" => ret.used = Return(PyBool(FALSE))
           /\ FlagMemberUnavailable

\* C24 as the code has it: the stub is false when the backend failed to
\* bind and true when the backend bound without providing the flag; reading
\* a member of it raises deferred-unavailability in both cases.
C24_FlagStubFalseIffUnbound ==
    FlagStubUsed
        => /\ ret.use.how = "bool"
                => ret.used = Return(PyBool(~Failed(Owner(ret.name))))
           /\ FlagMemberUnavailable

\* the zlib backend imported without ZLIB: the stub attached under ZLIB was
\* tested for truth and was true
C24_Witness ==
    /\ FlagStubUsed
    /\ ret.name = "ZLIB"
    /\ ~Failed("zlib")
    /\ "ZLIB" \in env.lacks
    /\ ret.use.how = "bool"
    /\ ret.used = Return(PyBool(TRUE))

(***************************************************************************)
(* Properties of the registration tables                                   *)
(***************************************************************************)
\* the modules whose declared attribute list contains the name n
ListedIn(n) == {m \in DOMAIN API : n \in DeclaredNames(m)}

\* every declared attribute name is a key of the attribute-to-module map,
\* every key is a declared name, and a name maps to the one module whose
\* list contains it
OneOwner ==
    /\ DOMAIN ATTRIBUTES = UNION {DeclaredNames(m) : m \in DOMAIN API}
    /\ \A n \in DOMAIN ATTRIBUTES : ListedIn(n) = {ATTRIBUTES[n]}

\* C25: after startup registration no lookup, generic read, generic write
\* or version query changes the attribute-to-module map or the
\* codec-to-module map, and at every moment each attribute name maps to
\* exactly one module, the one whose declared attribute list contains it.
C25_TablesFixedOneOwner ==
    /\ []OneOwner
    /\ [][ATTRIBUTES' = ATTRIBUTES /\ CODECS' = CODECS]_vars

\* names were looked up, a file was read, the versions were collected and
\* a file has just been written, with the tables as registration left them
C25_Witness ==
    /\ ret.op = "imwrite"
    /\ ret.res.raised = NoException
    /\ versions # <<>>
    /\ "zopfli_decode" \in DOMAIN ns
    /\ "tiff_decode" \in DOMAIN ns
    /\ ATTRIBUTES = RegisterCodecs.attributes
    /\ CODECS = RegisterCodecs.codecs

\* the attribute names the declaration d lists explicitly
Explicit(d) ==
    {d.attributes[i].attr :
        i \in {j \in 1..Len(d.attributes) : ~IsTuple(d.attributes[j])}}

\* the codec names of the declaration d: those of its groups, or the
\* module's own name when it has no group
CodecNames(d) ==
    LET groups == {j \in 1..Len(d.attributes) : IsTuple(d.attributes[j])}
    IN  IF groups = {} THEN {d.module}
        ELSE UNION {SeqToSet(d.attributes[j].tuple) : j \in groups}

\* the six attribute names derived from every codec name of d
Derived(d) == UNION {SeqToSet(DerivedAttributes(c)) : c \in CodecNames(d)}

\* C26: startup registration expands every group of codec names in a
\* module's declaration into the six derived attributes per name, each
\* owned by the module, with the codec mapped to the module; it keeps the
\* attributes the declaration lists explicitly and leaves no group in the
\* table; a module declared without a group gets the derived attributes of
\* its own name.
C26_GroupsExpanded ==
    /\ \A k \in 1..Len(DeclaredAPI) :
          LET d == DeclaredAPI[k]
          IN  /\ \A j \in 1..Len(API[d.module]) : ~IsTuple(API[d.module][j])
              /\ DeclaredNames(d.module) = Explicit(d) \cup Derived(d)
              /\ \A n \in Explicit(d) \cup Derived(d) :
                    n \in DOMAIN ATTRIBUTES /\ ATTRIBUTES[n] = d.module
              /\ \A c \in CodecNames(d) :
                    c \in DOMAIN CODECS /\ CODECS[c] = d.module
    /\ DOMAIN CODECS = UNION {CodecNames(DeclaredAPI[k]) : k \in 1..Len(DeclaredAPI)}

\* registration has run: the group of deflate gave deflate and gzip their
\* derived attributes, zlib without a group got those of its own name
\* besides the two it lists, and a name of the table has been looked up
C26_Witness ==
    /\ CODECS["gzip"] = "deflate"
    /\ ATTRIBUTES["GZIP"] = "deflate"
    /\ CodecNames(DeclaredAPI[CHOOSE k \in 1..Len(DeclaredAPI) :
                                 DeclaredAPI[k].module = "zlib"]) = {"zlib"}
    /\ {"zlib_crc32", "zlib_decode", "ZlibError"} \subseteq DeclaredNames("zlib")
    /\ ret.op = "getattr"
    /\ ret.name = "zlib_decode"

(***************************************************************************)
(* Properties of the generic JPEG decoder                                  *)
(***************************************************************************)
\* the call i of the decoders asked for raised
Raised(i) == ret.outs[i].raised # NoException

\* the error text of the 8-bit decoder reports what
Reports(what) == Contains(ret.outs[1].raised.msg, what)

\* C27: jpeg_decode with no bit depth given calls the 8-bit decoder first;
\* if that raises, it calls the 12-bit decoder only when the error text
\* reports an unsupported data precision, the SOF3 decoder and, if that
\* raises, the LJPEG decoder only when the text reports an SOF type, and
\* otherwise raises the 8-bit decoder's error again without calling any
\* other decoder.
C27_JpegFallbackByErrorText ==
    (ret.op = "jpeg_decode" /\ ret.bitspersample = PyNone)
        => /\ ret.calls[1] = "jpeg8_decode"
           /\ IF ~Raised(1)
              THEN ret.calls = <<"jpeg8_decode">> /\ ret.res = ret.outs[1]
              ELSE IF Reports("Unsupported JPEG data precision")
              THEN /\ ret.calls = <<"jpeg8_decode", "jpeg12_decode">>
                   /\ ret.res = ret.outs[2]
              ELSE IF Reports("SOF type")
              THEN /\ ret.calls[2] = "jpegsof3_decode"
                   /\ IF ~Raised(2)
                      THEN /\ ret.calls = <<"jpeg8_decode", "jpegsof3_decode">>
                           /\ ret.res = ret.outs[2]
                      ELSE /\ ret.calls = <<"jpeg8_decode", "jpegsof3_decode",
                                            "ljpeg_decode">>
                           /\ ret.res = ret.outs[3]
              ELSE ret.calls = <<"jpeg8_decode">> /\ ret.res = ret.outs[1]

\* a lossless JPEG was decoded with no bit depth given: the 8-bit decoder
\* reported an SOF type, the SOF3 decoder raised, the LJPEG decoder
\* returned the image
C27_Witness ==
    /\ ret.op = "jpeg_decode"
    /\ ret.bitspersample = PyNone
    /\ ret.content = "ljpeg"
    /\ ret.calls = <<"jpeg8_decode", "jpegsof3_decode", "ljpeg_decode">>
    /\ ret.outs[1].raised.msg = "Unsupported SOF type 0xc3"
    /\ ret.outs[2].raised # NoException
    /\ ret.res.raised = NoException
    /\ ret.res.value.kind = "ndarray"

(***************************************************************************)
(* Properties of the destination in generic write                          *)
(***************************************************************************)
\* write left the destination alone: no file was opened (created or
\* truncated), nothing was written, no handle is held
Untouched == ~ret.opened /\ ret.wrote = "" /\ ret.handle = "none"

\* C28: generic write calls the encode function before it opens or writes
\* the destination: when the selection of the encode function fails, write
\* raises that failure, and when the encode call raises (a stub's
\* deferred-unavailability included) write raises the same exception, the
\* destination being left alone in both cases; a destination that is a
\* path has its file handle released however the write ends.
C28_EncodeBeforeDestination ==
    ret.op = "imwrite"
        => /\ ~ret.called => (ret.res.raised # NoException /\ Untouched)
           /\ (ret.called /\ ret.encoded.raised # NoException)
                 => (ret.res = ret.encoded /\ Untouched)
           /\ ~Untouched => (ret.called /\ ret.encoded.raised = NoException)
           /\ IsPath(ret.fileobj) => ret.handle # "open"
           /\ ret.fileobj.kind = "stream" => ret.handle = "none"

\* a write to out.png where the png backend is not installed: the stub of
\* png_encode was called and its deferred-unavailability error reached the
\* caller, no file having been opened
C28_Witness ==
    /\ ret.op = "imwrite"
    /\ ret.fileobj.path = "out.png"
    /\ ret.codec = PyNone
    /\ ret.called
    /\ ret.func.kind = "stub"
    /\ ret.encoded.raised = DelayedImportError("png_encode")
    /\ ret.res.raised = DelayedImportError("png_encode")
    /\ ~ret.opened

\* C29: generic read closes a memory map exactly when read itself created
\* it from a path, on success as well as when every candidate failed and
\* the aggregate error is raised; a memory map or stream given by the
\* caller is never closed by read.
C29_ClosesOwnMapOnly ==
    ret.op = "imread"
        => /\ ret.closed <=> (IsPath(ret.fileobj) /\ ret.memmap)
           /\ ret.fileobj.kind \in {"mmap", "stream"} => ~ret.closed

====
